---- MODULE Spec2Model ----
(***************************************************************************)
(* Personal AI Trainer: the tool-calling conversation loop of              *)
(* AnthropicLangChainClient (buffered send_message and streamed            *)
(* send_message_stream), the Streamlit driver of app.py                    *)
(* (initialize_services, main_app) and the process-wide storage context    *)
(* of tool_handlers.py.                                                    *)
(*                                                                         *)
(* A browser session s owns st.session_state (drive_storage,               *)
(* gemini_client, chat_history); the module globals _storage and           *)
(* _user_email of tool_handlers.py are shared by every session of the      *)
(* process.  The language model, the document store's I/O and the user     *)
(* are the environment.                                                    *)
(***************************************************************************)
EXTENDS Integers, Sequences, FiniteSets, TLC

(***************************************************************************)
(* Bounds of the model (not program constants).                            *)
(***************************************************************************)
\* user messages sent through one client used directly
MaxTurns == 2
\* model-invocation failures and abandoned streams per client
MaxFaults == 1
\* user submissions (chat inputs, quick actions) per browser session
AppTurns == 1
\* replies with tool calls per browser session
AppToolReplies == 1
\* characters of a text handed to update_memory, and of the stored memory
\* it starts from
MaxText == 2

(***************************************************************************)
(* Program constants.                                                      *)
(***************************************************************************)
\* a loop bound that is one too large
max_iterations_plus_one == 10 + 1

\* anthropic_langchain_client.py:141 and :216
max_iterations == 10

Sessions == {"A", "B"}

\* "no object": Python None for _storage, drive_storage, gemini_client
None == "None"

\* the Google account behind a session (user_info["email"])
EmailOf(s) == s \o "@mail"

\* src/utils/prompts.py SYSTEM_PROMPT
SYSTEM_PROMPT == "SYSTEM_PROMPT"

\* the fixed text of lines 200 and 303
FallbackText == "FALLBACK"

\* get_all_tools(): the registered tool names
RegisteredTools ==
    {"save_user_profile", "save_workout_plan", "save_workout_log",
     "update_memory", "get_workout_logs"}

\* the tool calls of a reply that carries some, in emission order: two
\* tools that write (the plan ahead of the profile: the order is the
\* model's), a tool whose arguments fail validation, a tool that reads,
\* and a name that is not registered
ToolBatch ==
    <<"save_workout_plan", "save_user_profile", "update_memory",
      "get_workout_logs", "delete_account">>

\* the arguments of these calls: "valid" passes the tool's argument schema,
\* "invalid" makes tool.invoke raise before the handler runs
ToolArgs == <<"valid", "valid", "invalid", "valid", "valid">>

\* the chunks of a streamed answer, in order; "" is a chunk without content
StreamScript == <<"a", "", "b">>

\* content of a complete (buffered) tool-free reply: the text the stream
\* spells out, or another one (the two model calls are independent)
Texts == {"ab", "cd"}

(***************************************************************************)
(* Messages of ConversationState (langchain_core.messages).                *)
(***************************************************************************)
HumanMessage(c) ==
    [role |-> "user", content |-> c, tool_calls |-> <<>>, tool_call_id |-> 0]

AIMessage(c, tcs) ==
    [role |-> "agent", content |-> c, tool_calls |-> tcs, tool_call_id |-> 0]

ToolMessage(c, id) ==
    [role |-> "tool_result", content |-> c, tool_calls |-> <<>>,
     tool_call_id |-> id]

\* an entry of st.session_state.chat_history
UiMessage(r, c) == [role |-> r, content |-> c]

VARIABLES
    g_storage,          \* tool_handlers._storage
    g_user_email,       \* tool_handlers._user_email
    store,              \* the users' drives: handle -> documents
    credentials,        \* st.session_state.credentials is set
    drive_storage,      \* st.session_state.drive_storage
    gemini_client,      \* st.session_state.gemini_client is set
    system_instruction, \* client.system_instruction, as its parts
    history,            \* client.history
    chat_history,       \* st.session_state.chat_history
    uiPc,               \* position of the session's script run
    pc,                 \* position inside send_message / send_message_stream
    mode,               \* which of the two sends is running
    iteration,          \* the loop variable of the send
    response,           \* the reply of the last llm_with_tools.invoke
    toolIdx,            \* next tool call of the batch
    full_content,       \* send_message_stream's accumulator
    chunks,             \* fragments delivered by the current stream
    full_response,      \* main_app's accumulator
    result,             \* what the last send handed to its caller
    invocations,        \* model invocations made for the current user message
    nextCallId,         \* tool_call ids the model has issued
    turns,              \* user submissions so far
    faults,             \* failures and abandoned streams so far
    toolReplies,        \* replies with tool calls so far
    env,                \* what each user and model will do at most
    call_args,          \* arguments of a tool handler invoked on its own
    call_result,        \* what that invocation returned
    clock,              \* datetime.now(), in seconds
    authenticated,      \* st.session_state.authenticated
    user_info,          \* the e-mail in st.session_state.user_info
    cookie_save_pending,\* st.session_state.cookie_save_pending
    cookie,             \* the credentials saved in the browser's cookie
    query_code,         \* the OAuth code in st.query_params
    allowed_emails      \* st.secrets["allowed_emails"]

\* the state of signing in
authVars ==
    << authenticated, user_info, cookie_save_pending, cookie, query_code,
       allowed_emails >>

vars ==
    << g_storage, g_user_email, store, credentials, drive_storage,
       gemini_client, system_instruction, history, chat_history, uiPc, pc,
       mode, iteration, response, toolIdx, full_content, chunks,
       full_response, result, invocations, nextCallId, turns, faults,
       toolReplies, env, call_args, call_result, clock, authVars >>

(***************************************************************************)
(* The document store: one drive per Google account.                       *)
(***************************************************************************)
NoDoc == [user_id |-> "", data |-> ""]

\* profile.json as save_user_profile writes it: user_id is _user_email,
\* the data are what the agent of session s collected from its user, and
\* fields are the parameters that were given a non-empty value
ProfileWith(email, s, given) ==
    [user_id |-> email, data |-> "profile of " \o s, fields |-> given]

\* the parameters of save_user_profile (lines 32-40); the first two are
\* mandatory
RequiredFields == {"goals", "fitness_level"}

ProfileFields ==
    RequiredFields \cup {"schedule", "health_conditions",
                         "equipment_available", "preferences",
                         "additional_notes"}

\* a profile with every field filled in
ProfileDoc(email, s) == ProfileWith(email, s, ProfileFields)

\* a WorkoutPlan as create_workout_plan_from_dict builds it: plan_id is a
\* fresh uuid (storage_helpers.py 70)
WorkoutPlan(email, s, id) ==
    [user_id |-> email, data |-> "plan of " \o s, plan_id |-> id]

\* current_plan.json of the drive's owner
PlanDoc(email, s) == WorkoutPlan(email, s, 1)

\* trainer memory: a text, as the sequence of its characters; "" (no file,
\* or an empty one) is the empty sequence
NoMemory == <<>>

\* a drive: the app folder and the workout-log sheet exist or not, the
\* documents of the app folder, the data rows of the sheet (oldest first),
\* and the files of the subfolders plans_history and workout_logs, each a
\* name with its content
EmptyDrive ==
    [folder |-> FALSE, sheet |-> FALSE, profile |-> NoDoc, plan |-> NoDoc,
     memory |-> NoMemory, rows |-> <<>>, plans_history |-> {},
     workout_logs |-> {}]

OnboardedDrive(h) ==
    [EmptyDrive EXCEPT !.folder = TRUE, !.sheet = TRUE,
                       !.profile = ProfileDoc(EmailOf(h), h),
                       !.plan = PlanDoc(EmailOf(h), h)]

(***************************************************************************)
(* GoogleDriveStorage (gdrive_memory.py)                                   *)
(***************************************************************************)
\* _ensure_app_folder: the folder is searched for and created when missing
EnsureAppFolder(d) == [d EXCEPT !.folder = TRUE]

\* _ensure_workout_log_sheet: the same for the sheet, inside the app folder
EnsureWorkoutLogSheet(d) == [EnsureAppFolder(d) EXCEPT !.sheet = TRUE]

\* load_json / load_memory: the drive after the read
AfterLoad(d) == EnsureAppFolder(d)

\* read_workout_logs_from_sheet: the drive after the read
AfterReadLogs(d) == EnsureWorkoutLogSheet(d)

\* a save that adds to the file instead of replacing its content
save_memory_Appends(d, content) ==
    [EnsureAppFolder(d) EXCEPT !.memory = @ \o content]

\* save_memory(content): the drive after the write
save_memory(d, content) == [EnsureAppFolder(d) EXCEPT !.memory = content]

\* save_json("profile.json", data): the drive after the write
save_profile(d, doc) == [EnsureAppFolder(d) EXCEPT !.profile = doc]

\* save_json("current_plan.json", data)
save_plan(d, doc) == [EnsureAppFolder(d) EXCEPT !.plan = doc]

\* a save_json that never looks for a file of the same name
save_json_AlwaysCreates(files, filename, doc) ==
    files \cup {[name |-> filename, content |-> doc]}

\* save_json(filename, data, subfolder): the files of the subfolder after
\* the write; a file of that name is updated in place, else one is created
\* (lines 126-158)
save_json(files, filename, doc) ==
    {f \in files : f.name # filename}
        \cup {[name |-> filename, content |-> doc]}

\* append_workout_to_sheet: one row below the last one (lines 391-430)
append_workout_to_sheet(d, row) ==
    [EnsureWorkoutLogSheet(d) EXCEPT !.rows = Append(@, row)]

Reverse(seq) == [i \in 1..Len(seq) |-> seq[Len(seq) + 1 - i]]

\* read_workout_logs_from_sheet(limit): the data rows, most recent first,
\* cut to the limit (lines 466-474)
read_workout_logs_from_sheet(d, limit) ==
    LET logs == Reverse(d.rows)
    IN  IF Len(logs) > limit THEN SubSeq(logs, 1, limit) ELSE logs

(***************************************************************************)
(* tool_handlers.py                                                        *)
(***************************************************************************)
NotInitialized == "ERROR: Storage not initialized"

\* datetime.now().strftime("%Y-%m-%d %H:%M"): the minute of the instant
SecondsPerMinute == 60

date_str(now) == now \div SecondsPerMinute

\* datetime.now().strftime("%Y-%m-%d_%H-%M-%S"): the second of the instant
timestamp(now) == now

\* set_storage_context: the new values of (_storage, _user_email)
set_storage_context(storage, user_email) == <<storage, user_email>>

\* the loads of build_user_context, each in its own try block
ContextLoads == {"profile", "plan", "logs", "memory"}

\* build_user_context reads the module globals; "" when _storage is unset.
\* The text is kept as its sections: the e-mail line, the profile and plan
\* summaries, the trainer memory, the onboarding header and its two blocks.
\* workouts is the LAST 3 WORKOUTS section: the dates with the names of
\* their exercises.
EmptyContext ==
    [email |-> "", profile |-> NoDoc, profile_fields |-> {},
     plan |-> NoDoc, workouts |-> <<>>, memory |-> NoMemory,
     onboarding |-> FALSE, profile_block |-> FALSE, plan_block |-> FALSE]

\* the profile fields the USER PROFILE section prints when they are not
\* empty (lines 359-378)
PrintedFields ==
    {"fitness_level", "goals", "schedule", "health_conditions",
     "equipment_available", "additional_notes"}

\* the rows build_user_context asks the sheet for (line 408)
LogReadLimit == 50

\* workouts_by_date (lines 412-417): the logs grouped by their date string,
\* the dates in the order of their first log, the logs of a date in the
\* order read
RECURSIVE group_by_date(_, _)
group_by_date(logs, acc) ==
    IF logs = <<>> THEN acc
    ELSE LET log == Head(logs)
             known == {i \in 1..Len(acc) : acc[i].date = log.date}
         IN  IF known = {}
             THEN group_by_date(Tail(logs),
                      Append(acc, [date |-> log.date,
                                   exercises |-> <<log.exercise_name>>]))
             ELSE group_by_date(Tail(logs),
                      [i \in 1..Len(acc) |->
                          IF i \in known
                          THEN [acc[i] EXCEPT !.exercises =
                                   Append(@, log.exercise_name)]
                          ELSE acc[i]])

\* a summary that lists every date of the logs read
recent_workouts_All(workouts_by_date) == workouts_by_date

\* list(workouts_by_date.items())[:3] (line 420)
recent_workouts(workouts_by_date) ==
    IF Len(workouts_by_date) > 3 THEN SubSeq(workouts_by_date, 1, 3)
    ELSE workouts_by_date

\* failed: the loads that raise; such a section is skipped (lines 381-382,
\* 403-404, 445-446, 455-456)
build_user_context(storage, user_email, st, failed) ==
    IF storage = None
    THEN EmptyContext
    ELSE LET profile_data == IF "profile" \in failed THEN NoDoc
                             ELSE st[storage].profile
             plan_data == IF "plan" \in failed THEN NoDoc
                          ELSE st[storage].plan
             logs == IF "logs" \in failed THEN <<>>
                     ELSE read_workout_logs_from_sheet(st[storage],
                                                       LogReadLimit)
             memory == IF "memory" \in failed THEN NoMemory
                       ELSE st[storage].memory
             has_profile == profile_data # NoDoc
             has_plan == plan_data # NoDoc
         IN  [email |-> IF has_profile THEN user_email ELSE "",
              profile |-> profile_data,
              profile_fields |-> IF has_profile
                                 THEN profile_data.fields \cap PrintedFields
                                 ELSE {},
              plan |-> plan_data,
              workouts |-> recent_workouts(group_by_date(logs, <<>>)),
              memory |-> memory,
              onboarding |-> (~has_profile \/ ~has_plan),
              profile_block |-> ~has_profile,
              plan_block |-> (~has_plan /\ has_profile)]

\* the drives after build_user_context: every load that does not raise goes
\* through _ensure_app_folder, the log read through _ensure_workout_log_sheet
ContextStore(storage, st, failed) ==
    IF storage = None THEN st
    ELSE LET d0 == st[storage]
             d1 == IF {"profile", "plan", "memory"} \ failed # {}
                   THEN AfterLoad(d0) ELSE d0
             d2 == IF "logs" \notin failed THEN AfterReadLogs(d1) ELSE d1
         IN  [st EXCEPT ![storage] = d2]

(***************************************************************************)
(* save_user_profile and get_workout_logs (tool_handlers.py 30-82,         *)
(* 268-329), for the agent of session s                                    *)
(***************************************************************************)
ProfileSaved == "Profile saved"

ProfileError == "Error saving profile"

\* args.given are the parameters with a non-empty value; when args.io is
\* "fails" a storage call raises
save_user_profile(d, user_email, s, args) ==
    IF args.io = "ok"
    THEN [drive |-> save_profile(d, ProfileWith(user_email, s, args.given)),
          output |-> ProfileSaved]
    ELSE [drive |-> d, output |-> ProfileError]

NoLogsYet == "No workout logs yet. Start your first workout!"

LogsError == "Error loading workout logs"

\* the summary of the logs read (lines 296-323): its first line
LogsSummary(logs) == "Last " \o ToString(Len(logs)) \o " workouts"

get_workout_logs(d, args) ==
    IF args.io = "ok"
    THEN LET logs == read_workout_logs_from_sheet(d, args.limit)
         IN  [drive |-> AfterReadLogs(d),
              output |-> IF logs = <<>> THEN NoLogsYet ELSE LogsSummary(logs)]
    ELSE [drive |-> d, output |-> LogsError]

\* a handler that runs without looking at _storage: with None its first
\* storage call raises and the except clause formats the exception
Invoke_Unguarded(storage, st, r) ==
    IF storage = None
    THEN [output |-> "Error: 'NoneType' object has no attribute", store |-> st]
    ELSE [output |-> r.output, store |-> [st EXCEPT ![storage] = r.drive]]

\* the frame of every tool: 'if not _storage: return "ERROR: Storage not
\* initialized"' (lines 56-57, 104-105, 157-158, 228-229, 279-280), else
\* the handler's result r on the drive of the storage context
Invoke(storage, st, r) ==
    IF storage = None
    THEN [output |-> NotInitialized, store |-> st]
    ELSE [output |-> r.output, store |-> [st EXCEPT ![storage] = r.drive]]

(***************************************************************************)
(* save_workout_plan and save_workout_log (tool_handlers.py 85-198)        *)
(***************************************************************************)
PlanSaved == "Workout plan saved successfully to Google Drive!"

PlanError == "Error saving plan"

\* f"plan_{timestamp}.json" and f"log_{timestamp}.json"
PlanName(stamp) == [prefix |-> "plan", stamp |-> stamp]

LogName(stamp) == [prefix |-> "log", stamp |-> stamp]

\* save_workout_plan for the agent of session s: id is the uuid of the new
\* plan, now the instant of datetime.now(); when io is "fails" a storage
\* call raises after done of the two saves
save_workout_plan(d, user_email, s, id, now, io, done) ==
    LET doc == WorkoutPlan(user_email, s, id)
        current == save_plan(d, doc)
    IN  IF io = "ok"
        THEN [drive |-> [current EXCEPT !.plans_history =
                            save_json(@, PlanName(timestamp(now)), doc)],
              output |-> PlanSaved]
        ELSE [drive |-> IF done = 0 THEN d ELSE current,
              output |-> PlanError]

LogSaved(n, duration_minutes) ==
    "Workout log saved! Completed " \o ToString(n) \o " exercises in "
        \o ToString(duration_minutes) \o " minutes."

LogError == "Error saving workout log"

\* the row append_workout_to_sheet writes; sets, reps, weights, notes and
\* feedback ride along with the exercise
LogRow(date, exercise, duration_minutes) ==
    [date |-> date, exercise_name |-> exercise,
     duration_minutes |-> duration_minutes]

\* rows that read the clock once per exercise
LogRows_StampedEach(exercises, duration_minutes, now, later) ==
    [i \in 1..Len(exercises) |->
        LogRow(date_str(IF i = 1 THEN now ELSE later), exercises[i],
               duration_minutes)]

\* the rows of one call (lines 164-177): date_str is computed once, before
\* the loop
LogRows(exercises, duration_minutes, now, later) ==
    [i \in 1..Len(exercises) |->
        LogRow(date_str(now), exercises[i], duration_minutes)]

\* the WorkoutLog of the JSON backup (lines 179-185)
WorkoutLogDoc(user_email, args) ==
    [user_id |-> user_email,
     completed_exercises |-> args.completed_exercises,
     duration_minutes |-> args.duration_minutes]

\* save_workout_log: now is the instant of the first datetime.now(), later
\* that of the second; when args.io is "fails" a call raises after done
\* rows were appended
save_workout_log(d, user_email, args, now, later, done) ==
    LET rows == LogRows(args.completed_exercises, args.duration_minutes,
                        now, later)
        n == IF args.io = "ok" THEN Len(rows) ELSE done
        appended == IF n = 0 THEN d
                    ELSE [EnsureWorkoutLogSheet(d) EXCEPT
                             !.rows = @ \o SubSeq(rows, 1, n)]
    IN  IF args.io = "ok"
        THEN [drive |-> [EnsureWorkoutLogSheet(appended) EXCEPT
                            !.workout_logs =
                                save_json(@, LogName(timestamp(later)),
                                          WorkoutLogDoc(user_email, args))],
              output |-> LogSaved(Len(rows), args.duration_minutes)]
        ELSE [drive |-> appended, output |-> LogError]

\* the text a tool hands back, and the drive after it ran, for a call
\* issued by the agent loop of session s under the current globals
ToolOutput(name, s, storage, user_email) ==
    IF storage = None THEN NotInitialized
    ELSE IF name = "save_user_profile" THEN "Profile saved"
    ELSE IF name = "save_workout_plan" THEN PlanSaved
    ELSE IF name = "get_workout_logs" THEN "Workout log of " \o storage
    ELSE "ok"

ToolEffect(name, s, storage, user_email, st) ==
    IF storage = None THEN st
    ELSE IF name = "save_user_profile"
    THEN [st EXCEPT ![storage] = save_profile(@, ProfileDoc(user_email, s))]
    ELSE IF name = "save_workout_plan"
    THEN [st EXCEPT ![storage] =
             save_workout_plan(@, user_email, s, 1, clock, "ok", 0).drive]
    ELSE IF name = "get_workout_logs"
    THEN [st EXCEPT ![storage] = AfterReadLogs(@)]
    ELSE st

(***************************************************************************)
(* update_memory (tool_handlers.py 201-265); texts are sequences of        *)
(* characters                                                              *)
(***************************************************************************)
\* old_text in current_memory
Contains(text, sub) ==
    \E i \in 0..(Len(text) - Len(sub)) : SubSeq(text, i + 1, i + Len(sub)) = sub

\* str.replace(old, new) for a non-empty old: every occurrence, scanning
\* from the left without overlap
RECURSIVE str_replace(_, _, _)
str_replace(text, old, new) ==
    IF Len(text) < Len(old) THEN text
    ELSE IF SubSeq(text, 1, Len(old)) = old
    THEN new \o str_replace(SubSeq(text, Len(old) + 1, Len(text)), old, new)
    ELSE <<Head(text)>> \o str_replace(Tail(text), old, new)

\* "\n\n"
BlankLine == <<"\n", "\n">>

RequiresOldText == "Error: 'replace' mode requires old_text parameter"
TextNotFound == "Error: text not found in memory"
UnknownMode == "Error: unknown mode"
MemoryError == "Error updating memory"
MemoryUpdated(m) == "Trainer memory updated (mode: " \o m \o ")"

\* an error path that leaves an emptied memory file behind
Unsaved_Truncates(d, text) ==
    [output |-> text, drive |-> save_memory(d, NoMemory)]

\* the handler left the drive's documents alone and returned a text; the
\* load that came before went through _ensure_app_folder
Unsaved(d, text) == [output |-> text, drive |-> AfterLoad(d)]

\* an append that always puts the separator
AppendText_AlwaysSeparated(current_memory, new_text) ==
    current_memory \o BlankLine \o new_text

\* lines 244-248
AppendText(current_memory, new_text) ==
    IF current_memory # <<>>
    THEN current_memory \o BlankLine \o new_text
    ELSE new_text

\* lines 256-260
Saved(d, m, updated_memory) ==
    [output |-> MemoryUpdated(m), drive |-> save_memory(d, updated_memory)]

\* an update_memory without the test of lines 238-239: the empty old_text
\* is found at the start of any text
update_memory_EmptyMatches(d, args) ==
    LET current_memory == d.memory
        old_text == args.old_text
        new_text == args.new_text
        m == args.mode
    IN  IF args.io = "fails" THEN [output |-> MemoryError, drive |-> d]
        ELSE IF m = "replace"
        THEN IF old_text = <<>>
             THEN Saved(d, m, new_text \o current_memory)
             ELSE IF ~Contains(current_memory, old_text)
             THEN Unsaved(d, TextNotFound)
             ELSE Saved(d, m, str_replace(current_memory, old_text, new_text))
        ELSE IF m = "append"
        THEN Saved(d, m, AppendText(current_memory, new_text))
        ELSE IF m = "overwrite" THEN Saved(d, m, new_text)
        ELSE Unsaved(d, UnknownMode)

\* update_memory on drive d: the returned text and the drive afterwards.
\* args.io = "fails" is a storage call that raises (lines 261-264).
update_memory(d, args) ==
    LET current_memory == d.memory
        old_text == args.old_text
        new_text == args.new_text
        m == args.mode
    IN  IF args.io = "fails" THEN [output |-> MemoryError, drive |-> d]
        ELSE IF m = "replace"
        THEN IF old_text = <<>> THEN Unsaved(d, RequiresOldText)
             ELSE IF ~Contains(current_memory, old_text)
             THEN Unsaved(d, TextNotFound)
             ELSE Saved(d, m, str_replace(current_memory, old_text, new_text))
        ELSE IF m = "append"
        THEN Saved(d, m, AppendText(current_memory, new_text))
        ELSE IF m = "overwrite" THEN Saved(d, m, new_text)
        ELSE Unsaved(d, UnknownMode)

(***************************************************************************)
(* AnthropicLangChainClient                                                *)
(***************************************************************************)
\* __init__: the system prompt bound to the model, before any context
NewInstruction == [base |-> SYSTEM_PROMPT, contexts |-> <<>>]

\* update_system_instruction: f"{system_instruction}\n\n{user_context}"
update_system_instruction(instr, user_context) ==
    [instr EXCEPT !.contexts = Append(@, user_context)]

\* start_chat: user and assistant entries become messages, others dropped
start_chat(h) ==
    LET kept == SelectSeq(h, LAMBDA m : m.role \in {"user", "assistant"})
    IN  [i \in 1..Len(kept) |->
            IF kept[i].role = "user" THEN HumanMessage(kept[i].content)
            ELSE AIMessage(kept[i].content, <<>>)]

\* a get_history that turns every message into an entry
get_history_All(h) ==
    [i \in 1..Len(h) |->
        UiMessage(IF h[i].role = "user" THEN "user" ELSE "assistant",
                  h[i].content)]

\* get_history: user messages, and agent messages that have text, as
\* {"role", "content"} entries; tool calls and tool results are left out
get_history(h) ==
    LET kept == SelectSeq(h, LAMBDA msg :
                    \/ msg.role = "user"
                    \/ (msg.role = "agent" /\ msg.content # ""))
    IN  [i \in 1..Len(kept) |->
            UiMessage(IF kept[i].role = "user" THEN "user" ELSE "assistant",
                      kept[i].content)]

\* the text that comes with a reply that carries tool calls: the model
\* announces the first round of a turn, later rounds come without text
ToolReplyText(i) == IF i = 0 THEN "let me check" ELSE ""

\* the tool calls of a reply: ids are fresh, names in emission order
ToolCalls(names, firstId) ==
    [k \in 1..Len(names) |->
        [id |-> firstId + k - 1, name |-> names[k], args |-> ToolArgs[k]]]

\* lines 176-190 / 279-293: look the tool up by name and run it
NotFound(name) == "ERROR: Tool " \o name \o " not found"

\* lines 182-184 / 285-287: the text made of an exception of tool.invoke
ToolError(name) == "ERROR executing " \o name

\* a dispatch that runs nothing for an unknown name and reports success
DispatchOutput_UnknownIsOk(call, s, storage, user_email) ==
    IF call.name \in RegisteredTools
    THEN IF call.args = "invalid" THEN ToolError(call.name)
         ELSE ToolOutput(call.name, s, storage, user_email)
    ELSE "ok"

\* a dispatch whose except clause leaves tool_result as None
DispatchOutput_ExceptPass(call, s, storage, user_email) ==
    IF call.name \in RegisteredTools /\ call.args # "invalid"
    THEN ToolOutput(call.name, s, storage, user_email)
    ELSE NotFound(call.name)

DispatchOutput(call, s, storage, user_email) ==
    IF call.name \in RegisteredTools
    THEN IF call.args = "invalid" THEN ToolError(call.name)
         ELSE ToolOutput(call.name, s, storage, user_email)
    ELSE NotFound(call.name)

\* the drives after the dispatch: only a handler that was found and whose
\* arguments passed validation runs
DispatchEffect(call, s, storage, user_email, st) ==
    IF call.name \in RegisteredTools /\ call.args # "invalid"
    THEN ToolEffect(call.name, s, storage, user_email, st)
    ELSE st

\* a dispatch that appends nothing when the tool was not found
AppendToolResult_SkipNotFound(h, call, output) ==
    IF output = NotFound(call.name) THEN h
    ELSE Append(h, ToolMessage(output, call.id))

\* a result that is put in front of the last message instead of after it
AppendToolResult_Unordered(h, call, output) ==
    SubSeq(h, 1, Len(h) - 1) \o <<ToolMessage(output, call.id), h[Len(h)]>>

\* lines 193-196 / 296-299: the result joins the history
AppendToolResult(h, call, output) ==
    Append(h, ToolMessage(output, call.id))

Idle == "idle"

\* the local `response` before the first model call of a send
NoResponse == AIMessage("", <<>>)

NoResult == [kind |-> "none", value |-> ""]
Returned(v) == [kind |-> "returned", value |-> v]
Raised == [kind |-> "raised", value |-> ""]
Abandoned == [kind |-> "abandoned", value |-> ""]

NoInvocations == [invoke |-> 0, stream |-> 0]

\* the text of the user's n-th submission in a session
UserText(n) == "u" \o ToString(n)

\* no tool handler is invoked on its own
NoArgs == [old_text |-> <<>>, new_text |-> <<>>, mode |-> "", io |-> "ok"]

NoCall == [of |-> "", output |-> "", context |-> EmptyContext]

(***************************************************************************)
(* Initial states.                                                         *)
(***************************************************************************)
\* what the user and the model of a session will do at most
Budget(t, r, f) == [turns |-> t, tool_replies |-> r, faults |-> f]

\* the allow-list as st.secrets holds it: no such key, one string, or a list
NoList == [kind |-> "missing", text |-> "", items |-> {}]
OneAddress(e) == [kind |-> "str", text |-> e, items |-> {}]
AddressList(es) == [kind |-> "list", text |-> "", items |-> es]

\* the state of signing in when nobody signs in or out: every session is
\* signed in as its own user (or nobody is), and the list allows them
SignedIn(yes) ==
    /\ authenticated = [s \in Sessions |-> yes]
    /\ user_info = [s \in Sessions |-> IF yes THEN EmailOf(s) ELSE None]
    /\ cookie_save_pending = [s \in Sessions |-> FALSE]
    /\ cookie = [s \in Sessions |-> IF yes THEN EmailOf(s) ELSE None]
    /\ query_code = [s \in Sessions |-> None]
    /\ allowed_emails = AddressList({EmailOf(s) : s \in Sessions})

InitLocals ==
    /\ uiPc = [s \in Sessions |-> Idle]
    /\ pc = [s \in Sessions |-> Idle]
    /\ mode = [s \in Sessions |-> "stream"]
    /\ iteration = [s \in Sessions |-> 0]
    /\ response = [s \in Sessions |-> NoResponse]
    /\ toolIdx = [s \in Sessions |-> 1]
    /\ full_content = [s \in Sessions |-> ""]
    /\ chunks = [s \in Sessions |-> 0]
    /\ full_response = [s \in Sessions |-> ""]
    /\ result = [s \in Sessions |-> NoResult]
    /\ invocations = [s \in Sessions |-> NoInvocations]
    /\ nextCallId = [s \in Sessions |-> 1]
    /\ turns = [s \in Sessions |-> 0]
    /\ faults = [s \in Sessions |-> 0]
    /\ toolReplies = [s \in Sessions |-> 0]
    /\ system_instruction = [s \in Sessions |-> NewInstruction]
    /\ history = [s \in Sessions |-> <<>>]
    /\ chat_history = [s \in Sessions |-> <<>>]

\* one AnthropicLangChainClient, just constructed, used directly; the
\* storage context of the tools is unset or was set for its user
Init ==
    /\ g_storage \in {None, "A"}
    /\ g_user_email = IF g_storage = None THEN "" ELSE EmailOf(g_storage)
    /\ store = [h \in Sessions |-> EmptyDrive]
    /\ credentials = [s \in Sessions |-> FALSE]
    /\ drive_storage = [s \in Sessions |-> None]
    /\ gemini_client = [s \in Sessions |-> s = "A"]
    /\ env = [s \in Sessions |->
                IF s = "A"
                THEN Budget(MaxTurns, MaxTurns * max_iterations, MaxFaults)
                ELSE Budget(0, 0, 0)]
    /\ call_args = NoArgs
    /\ call_result = NoCall
    /\ clock = 0
    /\ InitLocals
    /\ SignedIn(FALSE)

\* the process has just started and two users are logged in, each in a
\* browser session; a drive is empty or holds its owner's profile and plan.
\* The user of session A chats; the user of session B only opens and
\* reloads the page.
\* the application before the first run of a session that will submit at
\* most t messages
InitAppWith(t) ==
    /\ g_storage = None
    /\ g_user_email = ""
    /\ store \in [Sessions -> {EmptyDrive} \cup
                    {OnboardedDrive(h) : h \in Sessions}]
    /\ \A h \in Sessions : store[h] \in {EmptyDrive, OnboardedDrive(h)}
    /\ credentials = [s \in Sessions |-> TRUE]
    /\ drive_storage = [s \in Sessions |-> None]
    /\ gemini_client = [s \in Sessions |-> FALSE]
    /\ env = [s \in Sessions |->
                IF s = "A"
                THEN Budget(t, AppToolReplies, MaxFaults)
                ELSE Budget(0, 0, 0)]
    /\ call_args = NoArgs
    /\ call_result = NoCall
    /\ clock = 0
    /\ InitLocals
    /\ SignedIn(TRUE)

InitApp == InitAppWith(AppTurns)

\* the same with room for one more submission, after a turn that failed
InitRetry == InitAppWith(AppTurns + 1)

\* the locals of a send that is not running
loopVars ==
    << pc, mode, iteration, response, toolIdx, full_content, chunks,
       full_response, result, invocations, nextCallId, toolReplies >>

\* what the agent loop never writes
appVars ==
    << g_storage, g_user_email, credentials, drive_storage, gemini_client,
       system_instruction, turns, env, call_args, call_result, clock,
       authVars >>

(***************************************************************************)
(* app.py                                                                  *)
(***************************************************************************)
\* a client rebuilt on every script run
BuildsClient_Always(has_client) == TRUE

\* line 294: the client, and with it the user context, is built only when
\* the session has no client yet
BuildsClient(has_client) == ~has_client

\* load_user_data (lines 252-275): profile.json and current_plan.json are
\* read from the session's own drive
load_user_data(storage, st) == [st EXCEPT ![storage] = AfterLoad(@)]

\* initialize_services, run at the start of every script run of main_app
InitializeServices(s) ==
    /\ uiPc[s] = Idle
    /\ credentials[s]
    /\ LET storage == IF drive_storage[s] = None THEN s ELSE drive_storage[s]
           loaded == IF drive_storage[s] = None
                     THEN load_user_data(storage, store) ELSE store
           user_context ==
               build_user_context(g_storage, g_user_email, loaded, {})
           ctx == set_storage_context(storage, EmailOf(s))
       IN  /\ drive_storage' = [drive_storage EXCEPT ![s] = storage]
           /\ IF BuildsClient(gemini_client[s])
              THEN /\ gemini_client' = [gemini_client EXCEPT ![s] = TRUE]
                   /\ history' = [history EXCEPT ![s] = <<>>]
                   /\ store' = ContextStore(g_storage, loaded, {})
                   /\ system_instruction' =
                        [system_instruction EXCEPT ![s] =
                           IF user_context # EmptyContext
                           THEN update_system_instruction(NewInstruction,
                                                          user_context)
                           ELSE NewInstruction]
              ELSE /\ store' = loaded
                   /\ UNCHANGED <<gemini_client, history, system_instruction>>
           /\ g_storage' = ctx[1]
           /\ g_user_email' = ctx[2]
    /\ uiPc' = [uiPc EXCEPT ![s] = "rendered"]
    /\ UNCHANGED <<credentials, chat_history, turns, faults, env, call_args,
                   call_result, clock, authVars>>
    /\ UNCHANGED loopVars

\* a quick-action button of the sidebar: append the text and st.rerun()
QuickAction(s) ==
    /\ uiPc[s] = "rendered"
    /\ turns[s] < env[s].turns
    /\ turns' = [turns EXCEPT ![s] = @ + 1]
    /\ chat_history' = [chat_history EXCEPT ![s] =
                          Append(@, UiMessage("user", UserText(turns[s] + 1)))]
    /\ uiPc' = [uiPc EXCEPT ![s] = Idle]
    /\ UNCHANGED <<g_storage, g_user_email, store, credentials, drive_storage,
                   gemini_client, system_instruction, history, faults, env,
                   call_args, call_result, clock, authVars>>
    /\ UNCHANGED loopVars

\* the first statements of both sends: the user message joins the history
\* and the loop starts (lines 138-142 / 213-217)
BeginSend(s, h, user_input, m) ==
    /\ history' = [history EXCEPT ![s] = Append(h, HumanMessage(user_input))]
    /\ pc' = [pc EXCEPT ![s] = "invoke"]
    /\ mode' = [mode EXCEPT ![s] = m]
    /\ iteration' = [iteration EXCEPT ![s] = 0]
    /\ result' = [result EXCEPT ![s] = NoResult]
    /\ invocations' = [invocations EXCEPT ![s] = NoInvocations]
    /\ UNCHANGED <<response, toolIdx, full_content, chunks, full_response,
                   nextCallId, toolReplies>>

\* the rest of main_app after the sidebar: the pending message, the chat
\* input, and the call of send_message_stream up to its first model call.
\* typed is TRUE when the chat input holds a new message.
MainApp(s, typed) ==
    /\ uiPc[s] = "rendered"
    /\ pc[s] = Idle
    /\ typed => turns[s] < env[s].turns
    /\ LET ui == chat_history[s]
           has_pending == ui # <<>> /\ ui[Len(ui)].role = "user"
           user_input == UserText(turns[s] + 1)
           message_to_process ==
               IF has_pending THEN ui[Len(ui)].content ELSE user_input
           ui2 == IF has_pending THEN ui
                  ELSE Append(ui, UiMessage("user", user_input))
           h0 == IF history[s] = <<>>
                 THEN start_chat(SubSeq(ui2, 1, Len(ui2) - 1))
                 ELSE history[s]
       IN  IF ~typed /\ ~has_pending
           THEN /\ uiPc' = [uiPc EXCEPT ![s] = Idle]
                /\ UNCHANGED <<chat_history, history, turns>>
                /\ UNCHANGED loopVars
           ELSE /\ turns' = [turns EXCEPT ![s] = IF typed THEN @ + 1 ELSE @]
                /\ chat_history' = [chat_history EXCEPT ![s] = ui2]
                /\ uiPc' = [uiPc EXCEPT ![s] = "streaming"]
                /\ BeginSend(s, h0, message_to_process, "stream")
    /\ UNCHANGED <<g_storage, g_user_email, store, credentials, drive_storage,
                   gemini_client, system_instruction, faults, env, call_args,
                   call_result, clock, authVars>>

(***************************************************************************)
(* AnthropicLangChainClient.send_message / send_message_stream             *)
(***************************************************************************)
\* send_message called directly on the session's client
SendMessage(s) ==
    /\ gemini_client[s]
    /\ uiPc[s] = Idle
    /\ pc[s] = Idle
    /\ turns[s] < env[s].turns
    /\ turns' = [turns EXCEPT ![s] = @ + 1]
    /\ BeginSend(s, history[s], UserText(turns[s] + 1), "buffered")
    /\ UNCHANGED <<g_storage, g_user_email, store, credentials, drive_storage,
                   gemini_client, system_instruction, chat_history, uiPc,
                   faults, env, call_args, call_result, clock, authVars>>

\* send_message_stream called directly: its first next() runs the generator
\* to the first model call
SendMessageStream(s) ==
    /\ gemini_client[s]
    /\ uiPc[s] = Idle
    /\ pc[s] = Idle
    /\ turns[s] < env[s].turns
    /\ turns' = [turns EXCEPT ![s] = @ + 1]
    /\ BeginSend(s, history[s], UserText(turns[s] + 1), "stream")
    /\ UNCHANGED <<g_storage, g_user_email, store, credentials, drive_storage,
                   gemini_client, system_instruction, chat_history, uiPc,
                   faults, env, call_args, call_result, clock, authVars>>

\* a loop without a cap: while True
AfterIteration_NoCap(i) == "invoke"

\* a loop that runs one iteration more than range(max_iterations)
AfterIteration_OffByOne(i) == IF i < max_iterations THEN "invoke" ELSE "cap"

\* where the loop goes after iteration i: range(max_iterations)
AfterIteration(i) == IF i + 1 < max_iterations THEN "invoke" ELSE "cap"

\* the iterations at which the model may answer in plain text or the call
\* may fail: at once, after one tool round, or on the last iteration
ExitIterations == {0, 1, max_iterations - 1}

\* the send is over: its locals are gone
EndSend(s) ==
    /\ pc' = [pc EXCEPT ![s] = Idle]
    /\ iteration' = [iteration EXCEPT ![s] = 0]
    /\ response' = [response EXCEPT ![s] = NoResponse]
    /\ toolIdx' = [toolIdx EXCEPT ![s] = 1]
    /\ full_content' = [full_content EXCEPT ![s] = ""]
    /\ chunks' = [chunks EXCEPT ![s] = 0]
    /\ full_response' = [full_response EXCEPT ![s] = ""]

\* lines 145-146 / 220-221 with a reply that carries tool calls
InvokeTools(s) ==
    /\ pc[s] = "invoke"
    /\ toolReplies[s] < env[s].tool_replies
    /\ LET calls == ToolCalls(ToolBatch, nextCallId[s])
           reply == AIMessage(ToolReplyText(iteration[s]), calls)
       IN  /\ history' = [history EXCEPT ![s] = Append(@, reply)]
           /\ response' = [response EXCEPT ![s] = reply]
    /\ nextCallId' = [nextCallId EXCEPT ![s] = @ + Len(ToolBatch)]
    /\ toolReplies' = [toolReplies EXCEPT ![s] = @ + 1]
    /\ toolIdx' = [toolIdx EXCEPT ![s] = 1]
    /\ invocations' = [invocations EXCEPT ![s].invoke = @ + 1]
    /\ pc' = [pc EXCEPT ![s] = "tools"]
    /\ UNCHANGED <<store, chat_history, uiPc, faults, mode, iteration,
                   full_content, chunks, full_response, result>>
    /\ UNCHANGED appVars

\* a send_message that returns a tool-free reply without appending it
InvokeText_NotAppended(s, text) ==
    /\ pc[s] = "invoke"
    /\ iteration[s] \in ExitIterations
    /\ invocations' = [invocations EXCEPT ![s].invoke = @ + 1]
    /\ IF mode[s] = "buffered"
       THEN /\ UNCHANGED history
            /\ result' = [result EXCEPT ![s] = Returned(text)]
            /\ EndSend(s)
       ELSE /\ history' = [history EXCEPT ![s] =
                             LET h == Append(@, AIMessage(text, <<>>))
                             IN  SubSeq(h, 1, Len(h) - 1)]
            /\ pc' = [pc EXCEPT ![s] = "stream_call"]
            /\ response' = [response EXCEPT ![s] = AIMessage(text, <<>>)]
            /\ UNCHANGED <<result, iteration, toolIdx, full_content, chunks,
                           full_response>>
    /\ UNCHANGED <<store, chat_history, uiPc, faults, mode, nextCallId,
                   toolReplies>>
    /\ UNCHANGED appVars

\* a tool-free reply that send_message_stream leaves in the history
InvokeText_KeepsBuffered(s, text) ==
    /\ pc[s] = "invoke"
    /\ iteration[s] \in ExitIterations
    /\ invocations' = [invocations EXCEPT ![s].invoke = @ + 1]
    /\ IF mode[s] = "buffered"
       THEN /\ history' = [history EXCEPT ![s] =
                             Append(@, AIMessage(text, <<>>))]
            /\ result' = [result EXCEPT ![s] = Returned(text)]
            /\ EndSend(s)
       ELSE /\ history' = [history EXCEPT ![s] =
                             Append(@, AIMessage(text, <<>>))]
            /\ pc' = [pc EXCEPT ![s] = "stream_call"]
            /\ response' = [response EXCEPT ![s] = AIMessage(text, <<>>)]
            /\ UNCHANGED <<result, iteration, toolIdx, full_content, chunks,
                           full_response>>
    /\ UNCHANGED <<store, chat_history, uiPc, faults, mode, nextCallId,
                   toolReplies>>
    /\ UNCHANGED appVars

\* lines 145-164 / 220-243 with a reply that carries no tool call:
\* send_message appends it and returns its content; send_message_stream
\* appends it, pops it again and goes on to the streaming call
InvokeText(s, text) ==
    /\ pc[s] = "invoke"
    /\ iteration[s] \in ExitIterations
    /\ invocations' = [invocations EXCEPT ![s].invoke = @ + 1]
    /\ IF mode[s] = "buffered"
       THEN /\ history' = [history EXCEPT ![s] =
                             Append(@, AIMessage(text, <<>>))]
            /\ result' = [result EXCEPT ![s] = Returned(text)]
            /\ EndSend(s)
       ELSE /\ history' = [history EXCEPT ![s] =
                             LET h == Append(@, AIMessage(text, <<>>))
                             IN  SubSeq(h, 1, Len(h) - 1)]
            /\ pc' = [pc EXCEPT ![s] = "stream_call"]
            /\ response' = [response EXCEPT ![s] = AIMessage(text, <<>>)]
            /\ UNCHANGED <<result, iteration, toolIdx, full_content, chunks,
                           full_response>>
    /\ UNCHANGED <<store, chat_history, uiPc, faults, mode, nextCallId,
                   toolReplies>>
    /\ UNCHANGED appVars

\* a send that catches the exception and answers with the fallback text
Propagate_Swallowed(s) ==
    /\ result' = [result EXCEPT ![s] = [kind |-> "returned",
                                        value |-> FallbackText]]
    /\ uiPc' = [uiPc EXCEPT ![s] = "idle"]
    /\ pc' = [pc EXCEPT ![s] = "idle"]
    /\ iteration' = [iteration EXCEPT ![s] = 0]
    /\ response' = [response EXCEPT ![s] = NoResponse]
    /\ toolIdx' = [toolIdx EXCEPT ![s] = 1]
    /\ full_content' = [full_content EXCEPT ![s] = ""]
    /\ chunks' = [chunks EXCEPT ![s] = 0]
    /\ full_response' = [full_response EXCEPT ![s] = ""]

\* the caller's side of an exception leaving the send: send_message's
\* caller sees it raised; main_app (lines 509-510) shows st.error and the
\* script run ends
Propagate(s) ==
    /\ result' = [result EXCEPT ![s] = Raised]
    /\ uiPc' = [uiPc EXCEPT ![s] = Idle]
    /\ EndSend(s)

\* llm_with_tools.invoke raises (lines 145 / 220): nothing catches it
InvokeFail(s) ==
    /\ pc[s] = "invoke"
    /\ iteration[s] \in ExitIterations
    /\ faults[s] < env[s].faults
    /\ faults' = [faults EXCEPT ![s] = @ + 1]
    /\ invocations' = [invocations EXCEPT ![s].invoke = @ + 1]
    /\ Propagate(s)
    /\ UNCHANGED <<store, history, chat_history, mode, nextCallId,
                   toolReplies>>
    /\ UNCHANGED appVars

\* lines 169-196 / 272-299 for one tool call of the batch, run against the
\* module globals as they are now
ExecTool(s) ==
    /\ pc[s] = "tools"
    /\ LET call == response[s].tool_calls[toolIdx[s]]
           output == DispatchOutput(call, s, g_storage, g_user_email)
           last == toolIdx[s] = Len(response[s].tool_calls)
       IN  /\ history' = [history EXCEPT ![s] =
                            AppendToolResult(@, call, output)]
           /\ store' = DispatchEffect(call, s, g_storage, g_user_email, store)
           /\ toolIdx' = [toolIdx EXCEPT ![s] = IF last THEN 1 ELSE @ + 1]
           /\ iteration' = [iteration EXCEPT ![s] = IF last THEN @ + 1 ELSE @]
           /\ pc' = [pc EXCEPT ![s] =
                       IF last THEN AfterIteration(iteration[s]) ELSE "tools"]
    /\ UNCHANGED <<chat_history, uiPc, faults, mode, response, full_content,
                   chunks, full_response, result, invocations, nextCallId,
                   toolReplies>>
    /\ UNCHANGED appVars

\* line 244: the streaming call is made over the history
StreamOpen(s) ==
    /\ pc[s] = "stream_call"
    /\ invocations' = [invocations EXCEPT ![s].stream = @ + 1]
    /\ pc' = [pc EXCEPT ![s] = "stream"]
    /\ full_content' = [full_content EXCEPT ![s] = ""]
    /\ chunks' = [chunks EXCEPT ![s] = 0]
    /\ UNCHANGED <<store, history, chat_history, uiPc, faults, mode, iteration,
                   response, toolIdx, full_response, result, nextCallId,
                   toolReplies>>
    /\ UNCHANGED appVars

\* an accumulator that keeps the last fragment only
Accumulate_Overwrites(acc, content_str) == content_str

\* full_content += content_str (line 262)
Accumulate(acc, content_str) == acc \o content_str

\* lines 244-263 for the next chunk: an empty one is skipped, another is
\* added to full_content and yielded to main_app (lines 496-498)
StreamChunk(s) ==
    /\ pc[s] = "stream"
    /\ chunks[s] < Len(StreamScript)
    /\ LET content_str == StreamScript[chunks[s] + 1]
       IN  IF content_str # ""
           THEN /\ full_content' = [full_content EXCEPT ![s] =
                                      Accumulate(@, content_str)]
                /\ full_response' = [full_response EXCEPT ![s] =
                                       @ \o content_str]
           ELSE UNCHANGED <<full_content, full_response>>
    /\ chunks' = [chunks EXCEPT ![s] = @ + 1]
    /\ UNCHANGED <<store, history, chat_history, uiPc, pc, faults, mode,
                   iteration, response, toolIdx, result, invocations,
                   nextCallId, toolReplies>>
    /\ UNCHANGED appVars

\* the streaming call raises, at its start or between two chunks
StreamFail(s) ==
    /\ pc[s] \in {"stream_call", "stream"}
    /\ faults[s] < env[s].faults
    /\ faults' = [faults EXCEPT ![s] = @ + 1]
    /\ invocations' = [invocations EXCEPT ![s].stream =
                         IF pc[s] = "stream_call" THEN @ + 1 ELSE @]
    /\ Propagate(s)
    /\ UNCHANGED <<store, history, chat_history, mode, nextCallId,
                   toolReplies>>
    /\ UNCHANGED appVars

\* the consumer after the generator is exhausted; main_app appends the
\* answer to the transcript it shows (lines 501-507)
FinishTurn(s, text) ==
    /\ chat_history' = [chat_history EXCEPT ![s] =
                          IF uiPc[s] = "streaming"
                          THEN Append(@, UiMessage("assistant", text))
                          ELSE @]
    /\ result' = [result EXCEPT ![s] = Returned(text)]
    /\ uiPc' = [uiPc EXCEPT ![s] = Idle]
    /\ EndSend(s)

\* lines 266-267: the stream is drained
StreamEnd(s) ==
    /\ pc[s] = "stream"
    /\ chunks[s] = Len(StreamScript)
    /\ history' = [history EXCEPT ![s] =
                     Append(@, AIMessage(full_content[s], <<>>))]
    /\ FinishTurn(s, full_response[s])
    /\ UNCHANGED <<store, faults, mode, invocations, nextCallId, toolReplies>>
    /\ UNCHANGED appVars

\* lines 198-200 / 301-303: the loop ran out of iterations
Fallback(s) ==
    /\ pc[s] = "cap"
    /\ UNCHANGED history
    /\ IF mode[s] = "buffered"
       THEN /\ result' = [result EXCEPT ![s] = Returned(FallbackText)]
            /\ EndSend(s)
       ELSE /\ full_response' = [full_response EXCEPT ![s] = @ \o FallbackText]
            /\ pc' = [pc EXCEPT ![s] = "cap_yielded"]
            /\ UNCHANGED <<result, iteration, response, toolIdx, full_content,
                           chunks>>
    /\ UNCHANGED <<store, chat_history, uiPc, faults, mode, invocations,
                   nextCallId, toolReplies>>
    /\ UNCHANGED appVars

\* the generator ends after the fallback was yielded
FallbackEnd(s) ==
    /\ pc[s] = "cap_yielded"
    /\ FinishTurn(s, full_response[s])
    /\ UNCHANGED <<store, history, faults, mode, invocations, nextCallId,
                   toolReplies>>
    /\ UNCHANGED appVars

\* a generator that appends what it has when it is closed
Abandon_AppendsPartial(s) ==
    /\ \/ /\ pc[s] = "stream"
          /\ chunks[s] >= 1
          /\ StreamScript[chunks[s]] # ""
       \/ pc[s] = "cap_yielded"
    /\ faults[s] < env[s].faults
    /\ faults' = [faults EXCEPT ![s] = @ + 1]
    /\ result' = [result EXCEPT ![s] = Abandoned]
    /\ uiPc' = [uiPc EXCEPT ![s] = Idle]
    /\ EndSend(s)
    /\ history' = [history EXCEPT ![s] =
                     Append(@, AIMessage(full_content[s], <<>>))]
    /\ UNCHANGED <<store, chat_history, mode, invocations, nextCallId,
                   toolReplies>>
    /\ UNCHANGED appVars

\* a new UI event stops the script run while the generator waits at a
\* yield: the generator is closed where it stands
Abandon(s) ==
    /\ \/ /\ pc[s] = "stream"
          /\ chunks[s] >= 1
          /\ StreamScript[chunks[s]] # ""
       \/ pc[s] = "cap_yielded"
    /\ faults[s] < env[s].faults
    /\ faults' = [faults EXCEPT ![s] = @ + 1]
    /\ result' = [result EXCEPT ![s] = Abandoned]
    /\ uiPc' = [uiPc EXCEPT ![s] = Idle]
    /\ EndSend(s)
    /\ UNCHANGED <<store, history, chat_history, mode, invocations,
                   nextCallId, toolReplies>>
    /\ UNCHANGED appVars

\* a caller that keeps the conversation as get_history() gives it and
\* starts the chat again from that
Restart(s) ==
    /\ gemini_client[s]
    /\ uiPc[s] = Idle
    /\ pc[s] = Idle
    /\ history[s] # <<>>
    /\ history' = [history EXCEPT ![s] = start_chat(get_history(@))]
    /\ UNCHANGED <<store, chat_history, uiPc, faults>>
    /\ UNCHANGED loopVars
    /\ UNCHANGED appVars

\* the steps of a send that both specifications share
LoopStep(s) ==
    \/ InvokeTools(s)
    \/ \E text \in Texts : InvokeText(s, text)
    \/ InvokeFail(s)
    \/ ExecTool(s)
    \/ StreamOpen(s)
    \/ StreamChunk(s)
    \/ StreamFail(s)
    \/ StreamEnd(s)
    \/ Abandon(s)

\* a client used directly through its two sends
Next ==
    \E s \in Sessions :
        \/ SendMessage(s)
        \/ SendMessageStream(s)
        \/ LoopStep(s)
        \/ Fallback(s)
        \/ FallbackEnd(s)
        \/ Restart(s)

\* the Streamlit application
NextApp ==
    \E s \in Sessions :
        \/ InitializeServices(s)
        \/ QuickAction(s)
        \/ \E typed \in BOOLEAN : MainApp(s, typed)
        \/ LoopStep(s)

(***************************************************************************)
(* The tool handlers invoked on their own, against one user's drive.       *)
(***************************************************************************)
Chars == {"a", "b"}

\* the texts of at most n characters
TextsUpTo(n) == UNION {[1..k -> Chars] : k \in 0..n}

\* the longest memory document the model follows
MaxDoc == 3 * MaxText + 2

\* the calls of update_memory: old_text is given for "replace" only
MemoryCalls ==
    {[old_text |-> o, new_text |-> n, mode |-> "replace", io |-> i] :
        o \in TextsUpTo(MaxText), n \in TextsUpTo(MaxText),
        i \in {"ok", "fails"}}
    \cup
    {[old_text |-> <<>>, new_text |-> n, mode |-> m, io |-> i] :
        n \in TextsUpTo(MaxText), m \in {"append", "overwrite", "bogus"},
        i \in {"ok", "fails"}}

\* the drives of user h: nothing yet, or an app folder with any of the
\* sheet, a profile (complete, or the mandatory fields only), the plan and
\* a memory text
Drives(h) ==
    {EmptyDrive} \cup
    {[EmptyDrive EXCEPT !.folder = TRUE, !.sheet = sh, !.profile = pr,
                        !.plan = pl, !.memory = me] :
        sh \in BOOLEAN,
        pr \in {NoDoc, ProfileDoc(EmailOf(h), h),
                ProfileWith(EmailOf(h), h, RequiredFields)},
        pl \in {NoDoc, PlanDoc(EmailOf(h), h)}, me \in TextsUpTo(MaxText)}

\* the instants the clock is read at: two seconds of one minute, and the
\* first second of three later minutes
Instants == {0, 1, 60, 120, 180}

\* the uuids create_workout_plan_from_dict may draw
PlanIds == {1, 2}

\* the sheet takes further rows while it has fewer than this
MaxRows == 4

\* the arguments of save_workout_log: the exercises by name, in order
LogCalls ==
    {[completed_exercises |-> e, duration_minutes |-> 45, io |-> i] :
        e \in {<<>>, <<"squat">>, <<"squat", "plank">>},
        i \in {"ok", "fails"}}

\* the arguments of save_workout_plan
PlanCalls == {[weeks |-> 4, io |-> i] : i \in {"ok", "fails"}}

\* the drives the plan and log handlers start from
FewDrives(h) ==
    {EmptyDrive, OnboardedDrive(h),
     [OnboardedDrive(h) EXCEPT !.plan = NoDoc]}

\* the arguments of save_user_profile: the parameters that are given
ProfileCalls ==
    {[given |-> g, io |-> i] :
        g \in {RequiredFields, ProfileFields}, i \in {"ok", "fails"}}

\* the arguments of get_workout_logs
LogQueries == {[limit |-> l, io |-> i] : l \in {1, 10}, i \in {"ok", "fails"}}

\* a drive whose sheet holds the rows of two workouts
LoggedDrive(h) ==
    [OnboardedDrive(h) EXCEPT
        !.rows = <<LogRow(0, "squat", 45), LogRow(0, "plank", 45),
                   LogRow(1, "squat", 45)>>]

\* the storage context is set for user A, or was never set; a handler is
\* about to be called
InitTools ==
    /\ g_storage \in {None, "A"}
    /\ g_user_email = IF g_storage = None THEN "" ELSE EmailOf(g_storage)
    /\ store \in [Sessions -> Drives("A") \cup {EmptyDrive, LoggedDrive("A")}]
    /\ store["B"] = EmptyDrive
    /\ \/ /\ call_args \in MemoryCalls
          /\ IF g_storage = None THEN store["A"] \in FewDrives("A")
             ELSE store["A"] \in Drives("A")
       \/ /\ call_args \in LogCalls \cup PlanCalls \cup ProfileCalls
          /\ store["A"] \in FewDrives("A")
       \/ /\ call_args \in LogQueries
          /\ store["A"] \in FewDrives("A") \cup {LoggedDrive("A")}
    /\ clock = 0
    /\ credentials = [s \in Sessions |-> FALSE]
    /\ drive_storage = [s \in Sessions |-> None]
    /\ gemini_client = [s \in Sessions |-> FALSE]
    /\ env = [s \in Sessions |-> Budget(0, 0, 0)]
    /\ call_result = NoCall
    /\ InitLocals
    /\ SignedIn(FALSE)

\* what a handler invoked on its own never writes
sessionVars ==
    << g_storage, g_user_email, credentials, drive_storage, gemini_client,
       system_instruction, history, chat_history, uiPc, turns, faults, env,
       call_args, authVars >>

\* update_memory.invoke(call_args), any number of times
UpdateMemory ==
    /\ "mode" \in DOMAIN call_args
    /\ call_result.of # "build_user_context"
    /\ LET r == Invoke(g_storage, store,
                       update_memory(store[g_storage], call_args))
       IN  /\ \A h \in Sessions : Len(r.store[h].memory) <= MaxDoc
           /\ store' = r.store
           /\ call_result' = [of |-> "update_memory", output |-> r.output,
                              context |-> EmptyContext]
    /\ UNCHANGED sessionVars
    /\ UNCHANGED loopVars
    /\ UNCHANGED clock

\* save_workout_log.invoke(call_args), any number of times; the clock may
\* advance while the handler runs
SaveWorkoutLog ==
    /\ "completed_exercises" \in DOMAIN call_args
    /\ call_result.of # "build_user_context"
    /\ \A h \in Sessions : Len(store[h].rows) < MaxRows
    /\ \E later \in {t \in Instants : t >= clock},
          done \in 0..Len(call_args.completed_exercises) :
          LET r == Invoke(g_storage, store,
                          save_workout_log(store[g_storage], g_user_email,
                                           call_args, clock, later, done))
          IN  /\ store' = r.store
              /\ call_result' = [of |-> "save_workout_log",
                                 output |-> r.output,
                                 context |-> EmptyContext]
              /\ clock' = later
    /\ UNCHANGED sessionVars
    /\ UNCHANGED loopVars

\* save_workout_plan.invoke(call_args), any number of times
SaveWorkoutPlan ==
    /\ "weeks" \in DOMAIN call_args
    /\ call_result.of # "build_user_context"
    /\ \E id \in PlanIds, done \in 0..1 :
          LET r == Invoke(g_storage, store,
                          save_workout_plan(store[g_storage], g_user_email,
                                            g_storage, id, clock,
                                            call_args.io, done))
          IN  /\ store' = r.store
              /\ call_result' = [of |-> "save_workout_plan",
                                 output |-> r.output,
                                 context |-> EmptyContext]
    /\ UNCHANGED sessionVars
    /\ UNCHANGED loopVars
    /\ UNCHANGED clock

\* save_user_profile.invoke(call_args), any number of times
SaveUserProfile ==
    /\ "given" \in DOMAIN call_args
    /\ call_result.of # "build_user_context"
    /\ LET r == Invoke(g_storage, store,
                       save_user_profile(store[g_storage], g_user_email,
                                         g_storage, call_args))
       IN  /\ store' = r.store
           /\ call_result' = [of |-> "save_user_profile",
                              output |-> r.output, context |-> EmptyContext]
    /\ UNCHANGED sessionVars
    /\ UNCHANGED loopVars
    /\ UNCHANGED clock

\* get_workout_logs.invoke(call_args), any number of times
GetWorkoutLogs ==
    /\ "limit" \in DOMAIN call_args
    /\ call_result.of # "build_user_context"
    /\ LET r == Invoke(g_storage, store,
                       get_workout_logs(store[g_storage], call_args))
       IN  /\ store' = r.store
           /\ call_result' = [of |-> "get_workout_logs",
                              output |-> r.output, context |-> EmptyContext]
    /\ UNCHANGED sessionVars
    /\ UNCHANGED loopVars
    /\ UNCHANGED clock

\* time passes between two calls of a handler that reads the clock
Tick ==
    /\ DOMAIN call_args \cap {"completed_exercises", "weeks"} # {}
    /\ call_result.of # "build_user_context"
    /\ \E t \in Instants : t > clock /\ clock' = t
    /\ UNCHANGED <<store, call_result>>
    /\ UNCHANGED sessionVars
    /\ UNCHANGED loopVars

\* the loads of build_user_context that raise in one call: none or one
LoadFailures == {{}} \cup {{l} : l \in ContextLoads}

\* build_user_context()
BuildUserContext(failed) ==
    /\ call_result.of # "build_user_context"
    /\ call_result' =
          [of |-> "build_user_context", output |-> "",
           context |-> build_user_context(g_storage, g_user_email, store,
                                          failed)]
    /\ store' = ContextStore(g_storage, store, failed)
    /\ UNCHANGED sessionVars
    /\ UNCHANGED loopVars
    /\ UNCHANGED clock

NextTools ==
    \/ UpdateMemory
    \/ SaveWorkoutLog
    \/ SaveWorkoutPlan
    \/ SaveUserProfile
    \/ GetWorkoutLogs
    \/ Tick
    \/ \E failed \in LoadFailures : BuildUserContext(failed)

(***************************************************************************)
(* GeminiLangChainClient.send_message (gemini_langchain_client.py 73-180). *)
(* Its positions are "g_invoke" (a model invocation is under way) and      *)
(* "g_tools" (the tool calls of the reply are being executed); iteration   *)
(* is tool_call_count.                                                     *)
(***************************************************************************)
\* the safety limit of the while loop (line 171)
gemini_limit == 10

\* the tool rounds after which the model may answer in plain text or the
\* invocation may fail: none, one, or as many as the limit allows
GeminiExits == {0, 1, gemini_limit}

\* lines 151-159: the text made of an exception of tool.invoke
GeminiToolError(name) == "ERROR executing tool " \o name

\* lines 126-149: the text of one tool call's ToolMessage
GeminiOutput(call, s, storage, user_email) ==
    IF call.name \in RegisteredTools
    THEN IF call.args = "invalid" THEN GeminiToolError(call.name)
         ELSE ToolOutput(call.name, s, storage, user_email)
    ELSE NotFound(call.name)

\* lines 122-159: the tool calls of one reply run in order; tool_messages
\* collects one ToolMessage per call
RECURSIVE GeminiBatch(_, _, _, _, _)
GeminiBatch(calls, s, storage, user_email, st) ==
    IF calls = <<>> THEN [tool_messages |-> <<>>, store |-> st]
    ELSE LET call == Head(calls)
             output == GeminiOutput(call, s, storage, user_email)
             rest == GeminiBatch(Tail(calls), s, storage, user_email,
                                 DispatchEffect(call, s, storage, user_email,
                                                st))
         IN  [tool_messages |->
                  <<ToolMessage(output, call.id)>> \o rest.tool_messages,
              store |-> rest.store]

InitGemini ==
    /\ g_storage \in {None, "A"}
    /\ g_user_email = IF g_storage = None THEN "" ELSE EmailOf(g_storage)
    /\ store = [h \in Sessions |-> EmptyDrive]
    /\ credentials = [s \in Sessions |-> FALSE]
    /\ drive_storage = [s \in Sessions |-> None]
    /\ gemini_client = [s \in Sessions |-> s = "A"]
    /\ env = [s \in Sessions |->
                IF s = "A"
                THEN Budget(MaxTurns, MaxTurns * (gemini_limit + 1),
                            MaxFaults)
                ELSE Budget(0, 0, 0)]
    /\ call_args = NoArgs
    /\ call_result = NoCall
    /\ clock = 0
    /\ InitLocals
    /\ SignedIn(FALSE)

\* lines 100-111: the user message joins chat_history and the model is
\* invoked
GeminiSendMessage(s) ==
    /\ gemini_client[s]
    /\ pc[s] = Idle
    /\ turns[s] < env[s].turns
    /\ turns' = [turns EXCEPT ![s] = @ + 1]
    /\ history' = [history EXCEPT ![s] =
                      Append(@, HumanMessage(UserText(turns[s] + 1)))]
    /\ pc' = [pc EXCEPT ![s] = "g_invoke"]
    /\ mode' = [mode EXCEPT ![s] = "gemini"]
    /\ iteration' = [iteration EXCEPT ![s] = 0]
    /\ result' = [result EXCEPT ![s] = NoResult]
    /\ invocations' = [invocations EXCEPT ![s] = NoInvocations]
    /\ UNCHANGED <<response, toolIdx, full_content, chunks, full_response,
                   nextCallId, toolReplies>>
    /\ UNCHANGED <<g_storage, g_user_email, store, credentials, drive_storage,
                   gemini_client, system_instruction, chat_history, uiPc,
                   faults, env, call_args, call_result, clock, authVars>>

\* lines 176-180: the reply joins chat_history and its content is returned
GeminiReturn(s, reply) ==
    /\ history' = [history EXCEPT ![s] = Append(@, reply)]
    /\ result' = [result EXCEPT ![s] = Returned(reply.content)]
    /\ EndSend(s)

\* what follows a model reply: the while test (line 114) after the first
\* invocation, the break (lines 171-173) and the while test after the
\* others. A reply with tool calls starts a tool round while
\* tool_call_count is below the limit; any other reply ends the call.
GeminiAfterReply(s, reply) ==
    IF reply.tool_calls # <<>> /\ iteration[s] < gemini_limit
    THEN /\ history' = [history EXCEPT ![s] = Append(@, reply)]
         /\ response' = [response EXCEPT ![s] = reply]
         /\ iteration' = [iteration EXCEPT ![s] = @ + 1]
         /\ pc' = [pc EXCEPT ![s] = "g_tools"]
         /\ UNCHANGED <<result, toolIdx, full_content, chunks, full_response>>
    ELSE GeminiReturn(s, reply)

\* llm_with_tools.invoke (lines 111 / 168) answers with tool calls
GeminiInvokeTools(s) ==
    /\ pc[s] = "g_invoke"
    /\ toolReplies[s] < env[s].tool_replies
    /\ GeminiAfterReply(s, AIMessage(ToolReplyText(iteration[s]),
                                     ToolCalls(ToolBatch, nextCallId[s])))
    /\ nextCallId' = [nextCallId EXCEPT ![s] = @ + Len(ToolBatch)]
    /\ toolReplies' = [toolReplies EXCEPT ![s] = @ + 1]
    /\ invocations' = [invocations EXCEPT ![s].invoke = @ + 1]
    /\ UNCHANGED <<store, chat_history, uiPc, faults, mode>>
    /\ UNCHANGED appVars

\* llm_with_tools.invoke answers in plain text
GeminiInvokeText(s, text) ==
    /\ pc[s] = "g_invoke"
    /\ iteration[s] \in GeminiExits
    /\ GeminiAfterReply(s, AIMessage(text, <<>>))
    /\ invocations' = [invocations EXCEPT ![s].invoke = @ + 1]
    /\ UNCHANGED <<store, chat_history, uiPc, faults, mode, nextCallId,
                   toolReplies>>
    /\ UNCHANGED appVars

\* llm_with_tools.invoke raises: nothing catches it
GeminiInvokeFail(s) ==
    /\ pc[s] = "g_invoke"
    /\ iteration[s] \in GeminiExits
    /\ faults[s] < env[s].faults
    /\ faults' = [faults EXCEPT ![s] = @ + 1]
    /\ invocations' = [invocations EXCEPT ![s].invoke = @ + 1]
    /\ Propagate(s)
    /\ UNCHANGED <<store, history, chat_history, mode, nextCallId,
                   toolReplies>>
    /\ UNCHANGED appVars

\* lines 122-165: the tool calls of the reply run and their ToolMessages
\* join chat_history together
GeminiExecTools(s) ==
    /\ pc[s] = "g_tools"
    /\ LET batch == GeminiBatch(response[s].tool_calls, s, g_storage,
                                g_user_email, store)
       IN  /\ history' = [history EXCEPT ![s] = @ \o batch.tool_messages]
           /\ store' = batch.store
    /\ pc' = [pc EXCEPT ![s] = "g_invoke"]
    /\ UNCHANGED <<chat_history, uiPc, faults, mode, iteration, response,
                   toolIdx, full_content, chunks, full_response, result,
                   invocations, nextCallId, toolReplies>>
    /\ UNCHANGED appVars

\* a Gemini client used directly through send_message
NextGemini ==
    \E s \in Sessions :
        \/ GeminiSendMessage(s)
        \/ GeminiInvokeTools(s)
        \/ \E text \in Texts : GeminiInvokeText(s, text)
        \/ GeminiInvokeFail(s)
        \/ GeminiExecTools(s)

(***************************************************************************)
(* Signing in (app.py): every run of main() handles an OAuth callback     *)
(* first, shows the app to an authenticated session, and otherwise tries  *)
(* the credentials saved in the browser's cookie.                         *)
(***************************************************************************)
\* a Google account that belongs to no session's user
Outsider == "M@mail"
Accounts == {EmailOf(s) : s \in Sessions} \cup {Outsider}

\* what the deployment's secrets may hold under "allowed_emails"
AllowLists ==
    { NoList, OneAddress(""), OneAddress(EmailOf("A")), AddressList({}),
      AddressList({EmailOf("A")}), AddressList({EmailOf("A"), Outsider}) }

check_user_access_OpenWhenEmpty(email, secret) ==
    LET allowed == IF secret.kind = "str" THEN {secret.text}
                   ELSE IF secret.kind = "list" THEN secret.items
                   ELSE {}
    IN email \in allowed \/ allowed = {}

\* check_user_access(email): a string becomes a list of one, no list or an
\* empty one denies everybody
check_user_access(email, secret) ==
    LET allowed == IF secret.kind = "str" THEN {secret.text}
                   ELSE IF secret.kind = "list" THEN secret.items
                   ELSE {}
    IN IF allowed = {} THEN FALSE ELSE email \in allowed

\* the browsers arrive with whatever cookie an earlier visit left
InitAuth ==
    /\ g_storage = None
    /\ g_user_email = ""
    /\ store = [h \in Sessions |-> EmptyDrive]
    /\ credentials = [s \in Sessions |-> FALSE]
    /\ drive_storage = [s \in Sessions |-> None]
    /\ gemini_client = [s \in Sessions |-> FALSE]
    /\ env = [s \in Sessions |-> Budget(0, 0, 0)]
    /\ call_args = NoArgs
    /\ call_result = NoCall
    /\ clock = 0
    /\ InitLocals
    /\ authenticated = [s \in Sessions |-> FALSE]
    /\ user_info = [s \in Sessions |-> None]
    /\ cookie_save_pending = [s \in Sessions |-> FALSE]
    /\ cookie \in [Sessions -> Accounts \cup {None}]
    /\ query_code = [s \in Sessions |-> None]
    /\ allowed_emails \in AllowLists

\* what signing in never writes
notAuthVars ==
    << g_storage, g_user_email, store, drive_storage, gemini_client,
       system_instruction, history, chat_history, uiPc, pc, mode, iteration,
       response, toolIdx, full_content, chunks, full_response, result,
       invocations, nextCallId, turns, faults, toolReplies, env, call_args,
       clock, allowed_emails >>

\* Google redirects the browser back with the code of the account that
\* consented
OAuthRedirect(s, account) ==
    /\ query_code[s] = None
    /\ query_code' = [query_code EXCEPT ![s] = account]
    /\ UNCHANGED <<authenticated, user_info, cookie_save_pending, cookie,
                   credentials, call_result>>
    /\ UNCHANGED notAuthVars

\* how a call of handle_oauth_callback() or restore_session_from_cookie()
\* ended
Ended(name, how) == [of |-> name, output |-> how, context |-> EmptyContext]

\* handle_oauth_callback() with a code in the query parameters; the exchange
\* or the user-info request may raise
handle_oauth_callback(s, raises) ==
    /\ query_code[s] # None
    /\ query_code' = [query_code EXCEPT ![s] = None]
    /\ call_result' =
          Ended("handle_oauth_callback",
                IF authenticated[s] THEN "return"
                ELSE IF raises THEN "error"
                ELSE IF check_user_access(query_code[s], allowed_emails)
                     THEN "rerun"
                     ELSE "stop")
    /\ IF /\ ~authenticated[s]
          /\ ~raises
          /\ check_user_access(query_code[s], allowed_emails)
       THEN /\ credentials' = [credentials EXCEPT ![s] = TRUE]
            /\ user_info' = [user_info EXCEPT ![s] = query_code[s]]
            /\ authenticated' = [authenticated EXCEPT ![s] = TRUE]
            /\ cookie_save_pending' =
                   [cookie_save_pending EXCEPT ![s] = TRUE]
       ELSE UNCHANGED <<credentials, user_info, authenticated,
                        cookie_save_pending>>
    /\ UNCHANGED cookie
    /\ UNCHANGED notAuthVars

\* main() for an authenticated session: the pending cookie is saved once the
\* cookie manager is ready
SaveCookie(s) ==
    /\ query_code[s] = None
    /\ authenticated[s]
    /\ cookie_save_pending[s]
    /\ cookie' = [cookie EXCEPT ![s] = user_info[s]]
    /\ cookie_save_pending' = [cookie_save_pending EXCEPT ![s] = FALSE]
    /\ UNCHANGED <<authenticated, user_info, query_code, credentials,
                   call_result>>
    /\ UNCHANGED notAuthVars

\* restore_session_from_cookie() with the cookie manager ready and a cookie
\* saved; the refresh or the user-info request may raise
restore_session_from_cookie(s, raises) ==
    /\ query_code[s] = None
    /\ ~authenticated[s]
    /\ cookie[s] # None
    /\ IF raises \/ ~check_user_access(cookie[s], allowed_emails)
       THEN /\ cookie' = [cookie EXCEPT ![s] = None]
            /\ call_result' = Ended("restore_session_from_cookie", "False")
            /\ UNCHANGED <<authenticated, credentials, user_info>>
       ELSE /\ authenticated' = [authenticated EXCEPT ![s] = TRUE]
            /\ credentials' = [credentials EXCEPT ![s] = TRUE]
            /\ user_info' = [user_info EXCEPT ![s] = cookie[s]]
            /\ call_result' = Ended("restore_session_from_cookie", "True")
            /\ UNCHANGED cookie
    /\ UNCHANGED <<cookie_save_pending, query_code>>
    /\ UNCHANGED notAuthVars

\* logout(): the cookie is cleared and the session state starts over
logout(s) ==
    /\ query_code[s] = None
    /\ authenticated[s]
    /\ cookie' = [cookie EXCEPT ![s] = None]
    /\ authenticated' = [authenticated EXCEPT ![s] = FALSE]
    /\ credentials' = [credentials EXCEPT ![s] = FALSE]
    /\ user_info' = [user_info EXCEPT ![s] = None]
    /\ cookie_save_pending' = [cookie_save_pending EXCEPT ![s] = FALSE]
    /\ UNCHANGED <<query_code, call_result>>
    /\ UNCHANGED notAuthVars

NextAuth ==
    \E s \in Sessions :
        \/ \E account \in Accounts : OAuthRedirect(s, account)
        \/ \E raises \in BOOLEAN : handle_oauth_callback(s, raises)
        \/ SaveCookie(s)
        \/ \E raises \in BOOLEAN : restore_session_from_cookie(s, raises)
        \/ logout(s)

Spec == Init /\ [][Next]_vars

\* a send that has begun keeps running: every model invocation and every
\* tool dispatch returns (or raises), and the caller drains or closes the
\* stream
Running(s) == LoopStep(s) \/ Fallback(s) \/ FallbackEnd(s)

SpecLive == Spec /\ \A s \in Sessions : WF_vars(Running(s))

SpecGemini == InitGemini /\ [][NextGemini]_vars

SpecApp == InitApp /\ [][NextApp]_vars

SpecRetry == InitRetry /\ [][NextApp]_vars

SpecTools == InitTools /\ [][NextTools]_vars

SpecAuth == InitAuth /\ [][NextAuth]_vars

\* the addresses the configured allow-list names
Listed ==
    IF allowed_emails.kind = "str" THEN {allowed_emails.text}
    ELSE allowed_emails.items

\* C37: a session becomes authenticated, by the OAuth callback or from the
\* cookie, only as the account that presented itself and only when the
\* configured allow-list names that account's address; while the list is
\* empty or missing no session is authenticated; and a cookie restore that
\* is denied clears the saved credentials and leaves the session as it was.
C37_OnlyAllowedSignIn ==
    /\ [](\A s \in Sessions :
            authenticated[s] => /\ Listed # {}
                                /\ user_info[s] \in Listed)
    /\ [][\A s \in Sessions :
            /\ (~authenticated[s] /\ authenticated'[s]) =>
                  /\ user_info'[s] = IF query_code[s] # None
                                     THEN query_code[s] ELSE cookie[s]
                  /\ user_info'[s] \in Listed
            /\ (\E raises \in BOOLEAN :
                     /\ restore_session_from_cookie(s, raises)
                     /\ cookie[s] \notin Listed) =>
                  /\ cookie'[s] = None
                  /\ ~authenticated'[s]
                  /\ call_result'.output = "False"]_vars

\* one session came in through the callback as a listed account, and the
\* other's restore from the cookie of an unlisted account has just been denied
C37_Witness ==
    /\ allowed_emails = AddressList({EmailOf("A")})
    /\ authenticated["B"] /\ user_info["B"] = EmailOf("A")
    /\ cookie_save_pending["B"]
    /\ call_result = Ended("restore_session_from_cookie", "False")
    /\ ~authenticated["A"] /\ cookie["A"] = None

(***************************************************************************)
(* Properties.                                                             *)
(***************************************************************************)
\* a replace that touches the first occurrence only
RECURSIVE str_replace_first(_, _, _)
str_replace_first(text, old, new) ==
    IF Len(text) < Len(old) THEN text
    ELSE IF SubSeq(text, 1, Len(old)) = old
    THEN new \o SubSeq(text, Len(old) + 1, Len(text))
    ELSE <<Head(text)>> \o str_replace_first(Tail(text), old, new)

Last(h) == h[Len(h)]

\* the agent message at position i of h is followed by exactly the results
\* of its tool calls, in their order
AnsweredAt(h, i) ==
    LET n == Len(h[i].tool_calls)
    IN  /\ i + n <= Len(h)
        /\ \A k \in 1..n :
              /\ h[i + k].role = "tool_result"
              /\ h[i + k].tool_call_id = h[i].tool_calls[k].id
        /\ i + n + 1 <= Len(h) => h[i + n + 1].role # "tool_result"

\* every tool result of h answers a call of the nearest agent message
\* before it, and no tool_call_id is answered twice
NoStrayResult(h) ==
    /\ \A j \in 1..Len(h) :
          h[j].role = "tool_result" =>
              \E i \in 1..(j - 1) :
                  /\ h[i].role = "agent"
                  /\ j - i <= Len(h[i].tool_calls)
                  /\ h[i].tool_calls[j - i].id = h[j].tool_call_id
    /\ \A j1, j2 \in 1..Len(h) :
          (/\ j1 # j2
           /\ h[j1].role = "tool_result"
           /\ h[j2].role = "tool_result")
          => h[j1].tool_call_id # h[j2].tool_call_id

WellPaired(h) ==
    /\ \A i \in 1..Len(h) : h[i].role = "agent" => AnsweredAt(h, i)
    /\ NoStrayResult(h)

\* C1: at every model invocation (invoke or stream, in both sends, after
\* any sequence of sends) each agent message with tool calls is followed
\* at once by exactly one tool_result per tool_call_id, in emission order.
C1_ToolResultsFollowCalls ==
    \A s \in Sessions :
        pc[s] \in {"invoke", "stream_call"} => WellPaired(history[s])

\* a second send is about to invoke the model again after a tool round,
\* over a history that holds the tool rounds of the send before it
C1_Witness ==
    \E s \in Sessions :
        /\ pc[s] = "invoke"
        /\ turns[s] = 2
        /\ iteration[s] >= 1
        /\ \E i, j \in 1..Len(history[s]) :
              /\ i < j
              /\ Len(history[s][i].tool_calls) > 1
              /\ history[s][j].role = "user"

\* C2: send_message makes at most 10 model invocations for one user
\* message; when the loop runs out it returns the fallback text (it does
\* not raise) and appends nothing more to the history.
C2_BufferedCap ==
    /\ [](\A s \in Sessions :
            mode[s] = "buffered" =>
                invocations[s].invoke + invocations[s].stream <= 10)
    /\ [][\A s \in Sessions :
            (mode[s] = "buffered" /\ pc[s] = "cap" /\ pc'[s] # "cap") =>
                /\ result'[s] = Returned(FallbackText)
                /\ history'[s] = history[s]]_vars

\* send_message has returned the fallback text after 10 replies with tools
C2_Witness ==
    \E s \in Sessions :
        /\ mode[s] = "buffered"
        /\ pc[s] = Idle
        /\ result[s] = Returned(FallbackText)
        /\ invocations[s].invoke = 10
        /\ Last(history[s]).role = "tool_result"

C4_TerminalMessageIsAnswer ==
    \A s \in Sessions :
        (pc[s] = Idle /\ result[s].kind = "returned") =>
            Last(history[s]) = AIMessage(result[s].value, <<>>)

\* what the tools of session s hand back when they run in its own context
OwnOutputs(s) ==
    {DispatchOutput(ToolCalls(ToolBatch, 1)[k], s, s, EmailOf(s)) :
        k \in 1..Len(ToolBatch)}

\* C5: every tool call issued by a session's agent loop reads and writes
\* only that session's storage handle and user e-mail.
C5_NoContextLeak ==
    /\ \A h \in Sessions :
          store[h].profile \in {NoDoc, ProfileDoc(EmailOf(h), h)}
    /\ \A s \in Sessions : \A i \in 1..Len(history[s]) :
          history[s][i].role = "tool_result" =>
              history[s][i].content \in OwnOutputs(s)

\* C6: the context injected into a session's client holds no profile, plan
\* or e-mail of another session's user.
C6_ContextFromOwnStore ==
    \A s \in Sessions :
        \A i \in 1..Len(system_instruction[s].contexts) :
            LET c == system_instruction[s].contexts[i]
            IN  /\ c.email \in {"", EmailOf(s)}
                /\ c.profile.user_id \in {"", EmailOf(s)}
                /\ c.plan.user_id \in {"", EmailOf(s)}

\* C7: when a session whose drive holds a profile makes its first model
\* call, the client's system instruction holds that user's context.
C7_ContextSeeded ==
    \A s \in Sessions :
        (/\ pc[s] = "invoke"
         /\ Len(history[s]) = 1
         /\ store[s].profile = ProfileDoc(EmailOf(s), s))
        => /\ system_instruction[s].contexts # <<>>
           /\ system_instruction[s].contexts[1].profile = store[s].profile
           /\ system_instruction[s].contexts[1].email = EmailOf(s)

\* C8: once a session's first send has begun, its system instruction never
\* changes, whatever reruns of initialize_services and sends follow.
C8_InstructionsFrozen ==
    [][\A s \in Sessions :
          history[s] # <<>> =>
              system_instruction'[s] = system_instruction[s]]_vars

\* initialize_services has run again after a send of a session whose
\* instruction holds a user context
C8_Witness ==
    \E s \in Sessions :
        /\ history[s] # <<>>
        /\ pc[s] = Idle
        /\ uiPc[s] = "rendered"
        /\ system_instruction[s].contexts # <<>>

\* C9: the client history never holds the same user message twice, also
\* after a failed model call and a retry through main_app.
C9_NoDuplicateUserMessage ==
    \A s \in Sessions : \A i, j \in 1..Len(history[s]) :
        (/\ i < j
         /\ history[s][i].role = "user"
         /\ history[s][j].role = "user")
        => history[s][i].content # history[s][j].content

\* C10: a failing model call (invoke or stream) reaches the caller as an
\* exception and leaves the history as it was before the call.
C10_FailurePropagates ==
    [][\A s \in Sessions :
          faults'[s] # faults[s] =>
              /\ history'[s] = history[s]
              /\ pc'[s] = Idle
              /\ result'[s] \in {Raised, Abandoned}
              /\ pc[s] \in {"invoke", "stream_call"} => result'[s] = Raised]_vars

\* a model call failed after a completed tool round of the same send
C10_Witness ==
    \E s \in Sessions :
        /\ result[s] = Raised
        /\ pc[s] = Idle
        /\ Last(history[s]).role = "tool_result"

\* the tool call the loop of session s is about to run
CurrentCall(s) == response[s].tool_calls[toolIdx[s]]

\* the loop of session s has just run a tool call
Dispatched(s) ==
    /\ pc[s] = "tools"
    /\ <<pc[s], toolIdx[s]>>' # <<pc[s], toolIdx[s]>>

\* C11: a call of a tool name that is not registered does not raise: its
\* 'tool not found' text is appended as the tool_result of that
\* tool_call_id, nothing is run, and the loop goes on (to the next call,
\* the next model invocation, or the exhausted loop).
C11_UnknownToolFailsClosed ==
    [][\A s \in Sessions :
          (Dispatched(s) /\ CurrentCall(s).name \notin RegisteredTools) =>
              /\ history'[s] =
                    Append(history[s],
                           ToolMessage(NotFound(CurrentCall(s).name),
                                       CurrentCall(s).id))
              /\ store' = store
              /\ result'[s] = result[s]
              /\ faults'[s] = faults[s]
              /\ pc'[s] \in {"tools", "invoke", "cap"}]_vars

\* the model is about to be invoked again after a batch whose last call
\* named an unknown tool
C11_Witness ==
    \E s \in Sessions :
        /\ pc[s] = "invoke"
        /\ iteration[s] >= 1
        /\ Last(history[s]).role = "tool_result"
        /\ Last(history[s]).content = NotFound("delete_account")

\* C12: a tool call whose invocation raises (here: its arguments fail
\* validation) does not abort the loop: the error text is appended as the
\* tool_result of that tool_call_id, the handler has run nothing, and the
\* rest of the batch is still executed.
C12_ToolFailureContained ==
    [][\A s \in Sessions :
          (/\ Dispatched(s)
           /\ CurrentCall(s).name \in RegisteredTools
           /\ CurrentCall(s).args = "invalid") =>
              /\ history'[s] =
                    Append(history[s],
                           ToolMessage(ToolError(CurrentCall(s).name),
                                       CurrentCall(s).id))
              /\ store' = store
              /\ result'[s] = result[s]
              /\ faults'[s] = faults[s]
              /\ pc'[s] = "tools"
              /\ toolIdx'[s] = toolIdx[s] + 1]_vars

\* after the failed call the rest of its batch was executed and the model
\* is about to be invoked again
C12_Witness ==
    \E s \in Sessions :
        /\ pc[s] = "invoke"
        /\ iteration[s] >= 1
        /\ \E i \in 1..(Len(history[s]) - 1) :
              /\ history[s][i].role = "tool_result"
              /\ history[s][i].content = ToolError("update_memory")
              /\ history[s][i + 1].role = "tool_result"
              /\ history[s][i + 1].content \notin
                    {ToolError("get_workout_logs"),
                     NotFound("get_workout_logs")}

\* C20: the terminal agent message of send_message_stream, and the
\* concatenation of the fragments it yielded, equal the content of the
\* tool-free complete response, which is what send_message appends and
\* returns for the same model responses.
C20_StreamMatchesBuffered ==
    [][\A s \in Sessions :
          (/\ mode[s] = "stream"
           /\ pc[s] = "stream"
           /\ pc'[s] = Idle
           /\ result'[s].kind = "returned") =>
              /\ Last(history'[s]).content = response[s].content
              /\ result'[s].value = response[s].content]_vars

\* update_memory has just run to its end on the drive of the storage
\* context, with the arguments call_args and no storage call raising
MemoryStep(m) ==
    /\ call_result'.of = "update_memory"
    /\ g_storage # None
    /\ call_args.io = "ok"
    /\ call_args.mode = m

\* the memory document of the drive the storage context points at
Memory == store[g_storage].memory

\* C13: update_memory in mode 'replace' with an old_text that is absent
\* leaves the document unchanged and returns an error; with one that is
\* present it substitutes exactly the first occurrence and no other.
C13_ReplaceFirstOccurrence ==
    [][(MemoryStep("replace") /\ call_args.old_text # <<>>) =>
          IF Contains(Memory, call_args.old_text)
          THEN Memory' = str_replace_first(Memory, call_args.old_text,
                                           call_args.new_text)
          ELSE /\ Memory' = Memory
               /\ call_result'.output = TextNotFound]_vars

\* C14: update_memory in mode 'append' stores exactly new_text on an empty
\* document, and the old content, two newlines and new_text otherwise.
C14_AppendSeparates ==
    [][MemoryStep("append") =>
          /\ call_result'.output = MemoryUpdated("append")
          /\ Memory' = IF Memory = <<>>
                       THEN call_args.new_text
                       ELSE Memory \o <<"\n", "\n">> \o call_args.new_text]_vars

\* a text was appended to a document that held one already
C14_Witness ==
    /\ call_result.output = MemoryUpdated("append")
    /\ call_args.new_text # <<>>
    /\ \E i \in 2..(Len(Memory) - 2) :
          /\ SubSeq(Memory, i, i + 1) = <<"\n", "\n">>
          /\ SubSeq(Memory, i + 2, Len(Memory)) = call_args.new_text

\* C15: after update_memory in mode 'overwrite', applied once or more
\* often with the same new_text to any prior content, the document is
\* exactly new_text.
C15_OverwriteExact ==
    (/\ call_result.of = "update_memory"
     /\ g_storage # None
     /\ call_args.io = "ok"
     /\ call_args.mode = "overwrite")
    => /\ call_result.output = MemoryUpdated("overwrite")
       /\ Memory = call_args.new_text

\* a document was overwritten with a text
C15_Witness ==
    /\ call_result.output = MemoryUpdated("overwrite")
    /\ call_args.new_text # <<>>
    /\ Memory = call_args.new_text

\* C16: update_memory with a mode other than replace, append, overwrite
\* returns the 'unknown mode' error and leaves the documents of the drive
\* as they were, at every repetition.
C16_UnknownModeNoMutation ==
    [][(/\ call_result'.of = "update_memory"
        /\ g_storage # None
        /\ call_args.io = "ok"
        /\ call_args.mode \notin {"replace", "append", "overwrite"}) =>
          /\ call_result'.output = UnknownMode
          /\ Memory' = Memory
          /\ store'[g_storage].profile = store[g_storage].profile
          /\ store'[g_storage].plan = store[g_storage].plan]_vars

\* the unknown mode was answered on a drive that holds a memory text
C16_Witness ==
    /\ call_result.output = UnknownMode
    /\ call_args.mode = "bogus"
    /\ Memory # <<>>

\* C17: the output of build_user_context holds the onboarding block if and
\* only if the profile or the plan document is absent from the store, also
\* when a load raises.
C17_OnboardingIffMissing ==
    (call_result.of = "build_user_context" /\ g_storage # None) =>
        (call_result.context.onboarding <=>
            (\/ store[g_storage].profile = NoDoc
             \/ store[g_storage].plan = NoDoc))

\* C18: in the output of build_user_context a missing profile brings the
\* profile block and a missing plan brings the plan block, also when both
\* are missing.
C18_BlockPerMissingArtifact ==
    (call_result.of = "build_user_context" /\ g_storage # None) =>
        /\ call_result.context.profile = NoDoc =>
              call_result.context.profile_block
        /\ call_result.context.plan = NoDoc =>
              call_result.context.plan_block

\* C19: build_user_context creates, modifies and deletes nothing in the
\* store, whatever the store holds.
C19_ContextReadOnly ==
    [][call_result'.of = "build_user_context" => store' = store]_vars

\* the concatenation of the texts of a sequence
RECURSIVE Concat(_)
Concat(seq) == IF seq = <<>> THEN "" ELSE Head(seq) \o Concat(Tail(seq))

\* C21: when a streamed turn is drained, exactly one agent message is
\* appended, its content is the concatenation of the yielded fragments in
\* order, and the message before it is not the discarded complete response.
C21_SingleTerminalMessage ==
    [][\A s \in Sessions :
          (pc[s] = "stream" /\ pc'[s] = Idle /\ result'[s].kind = "returned")
          => /\ history'[s] =
                   Append(history[s], AIMessage(Concat(StreamScript), <<>>))
             /\ result'[s].value = Concat(StreamScript)
             /\ Last(history[s]).role \in {"user", "tool_result"}]_vars

\* a streamed turn that ran a tool round was drained
C21_Witness ==
    \E s \in Sessions :
        /\ mode[s] = "stream"
        /\ pc[s] = Idle
        /\ result[s] = Returned(Concat(StreamScript))
        /\ Len(history[s]) >= 2
        /\ history[s][Len(history[s]) - 1].role = "tool_result"
        /\ Last(history[s]).role = "agent"

\* C22: a consumer that abandons the stream after a fragment leaves the
\* history exactly as it was before the streaming call, without a terminal
\* agent message: nothing is appended and nothing is rolled back.
C22_AbandonKeepsHistory ==
    [][\A s \in Sessions :
          (pc[s] # Idle /\ result'[s] = Abandoned) =>
              /\ history'[s] = history[s]
              /\ Last(history'[s]).role \in {"user", "tool_result"}]_vars

\* a stream was abandoned after a tool round of the same turn
C22_Witness ==
    \E s \in Sessions :
        /\ result[s] = Abandoned
        /\ pc[s] = Idle
        /\ Last(history[s]).role = "tool_result"
        /\ \E i \in 1..Len(history[s]) : history[s][i].role = "user"

\* C29: send_message_stream yields no fragment before or during an
\* iteration whose reply carries tool calls; the streaming call is made
\* only after a tool-free complete response, over the history that
\* response was produced from.
C29_StreamOnlyAfterToolFree ==
    /\ [](\A s \in Sessions :
            pc[s] \in {"invoke", "tools"} =>
                /\ full_response[s] = ""
                /\ chunks[s] = 0
                /\ invocations[s].stream = 0)
    /\ [][\A s \in Sessions :
            (pc[s] # "stream_call" /\ pc'[s] = "stream_call") =>
                /\ pc[s] = "invoke"
                /\ response'[s].tool_calls = <<>>
                /\ history'[s] = history[s]]_vars
    /\ [][\A s \in Sessions :
            invocations'[s].stream > invocations[s].stream =>
                /\ pc[s] = "stream_call"
                /\ history'[s] = history[s]]_vars

\* fragments are being yielded after a tool round of the same turn
C29_Witness ==
    \E s \in Sessions :
        /\ pc[s] = "stream"
        /\ full_response[s] # ""
        /\ iteration[s] >= 1
        /\ Last(history[s]).role = "tool_result"

\* C30: while a batch is being executed, the history ends with the reply
\* and the results of the calls run so far, in emission order, and the
\* model is not invoked between two dispatches of the batch.
C30_SequentialDispatch ==
    /\ [](\A s \in Sessions :
            pc[s] = "tools" =>
                LET h == history[s]
                    done == toolIdx[s] - 1
                    at == Len(h) - done
                IN  /\ at >= 1
                    /\ h[at] = response[s]
                    /\ \A k \in 1..done :
                          /\ h[at + k].role = "tool_result"
                          /\ h[at + k].tool_call_id =
                                response[s].tool_calls[k].id)
    /\ [][\A s \in Sessions :
            (pc[s] = "tools" /\ pc'[s] = "tools") =>
                /\ invocations'[s] = invocations[s]
                /\ toolIdx'[s] \in {toolIdx[s], toolIdx[s] + 1}]_vars

\* the third call of a batch is about to run after the first two
C30_Witness ==
    \E s \in Sessions :
        /\ pc[s] = "tools"
        /\ toolIdx[s] = 3
        /\ Last(history[s]).tool_call_id = response[s].tool_calls[2].id

\* the messages of h that are user messages or agent messages with text
TextTurns(h) ==
    SelectSeq(h, LAMBDA msg : \/ msg.role = "user"
                              \/ (msg.role = "agent" /\ msg.content # ""))

\* C26: start_chat(get_history()) leaves a history without tool results
\* and without tool calls, which holds the user messages and the texts of
\* the agent messages of the old history, in their order.
C26_ToolTurnsNotPersisted ==
    [][\A s \in Sessions :
          (pc[s] = Idle /\ pc'[s] = Idle /\ history'[s] # history[s]) =>
              LET old == TextTurns(history[s])
                  new == history'[s]
              IN  /\ Len(new) = Len(old)
                  /\ \A i \in 1..Len(new) :
                        /\ new[i].role \in {"user", "agent"}
                        /\ new[i].role = old[i].role
                        /\ new[i].content = old[i].content
                        /\ new[i].tool_calls = <<>>
                        /\ new[i].tool_call_id = 0]_vars

\* a chat was started again from a conversation that held a tool round
\* and a terminal answer; the announced round is kept as text only
C26_Witness ==
    \E s \in Sessions :
        /\ pc[s] = Idle
        /\ Len(history[s]) = 3
        /\ history[s][1].role = "user"
        /\ history[s][2] = AIMessage(ToolReplyText(0), <<>>)
        /\ history[s][3].role = "agent"

\* C28: build_user_context loses nothing of the profile: every field that
\* save_user_profile wrote with a non-empty value appears in the text that
\* was assembled from the loaded profile document
C28_ProfileRoundTrip ==
    (call_result.of = "build_user_context"
        /\ call_result.context.profile # NoDoc)
    => call_result.context.profile.fields
           \subseteq call_result.context.profile_fields

\* the fields that were given are all printed when preferences was left out
C28_PrintedWhenNoPreferences ==
    (call_result.of = "build_user_context"
        /\ call_result.context.profile # NoDoc
        /\ "preferences" \notin call_result.context.profile.fields)
    => call_result.context.profile.fields
           = call_result.context.profile_fields

\* the sheet rows and the log backups of the drive the storage context
\* points at
Rows == store[g_storage].rows

Backups == store[g_storage].workout_logs

\* C23: a save_workout_log call that succeeds with n completed exercises
\* appends exactly n rows below the rows the sheet had, one per exercise in
\* input order, all with the same timestamp string and the duration of the
\* call, and writes one JSON backup of the call
C23_LogAppendsRows ==
    [][(SaveWorkoutLog /\ g_storage # None
            /\ call_result'.output # LogError) =>
          LET ex == call_args.completed_exercises
              n == Len(ex)
              new == SubSeq(Rows', Len(Rows) + 1, Len(Rows'))
          IN  /\ Len(Rows') = Len(Rows) + n
              /\ SubSeq(Rows', 1, Len(Rows)) = Rows
              /\ \A i \in 1..n :
                    /\ new[i].exercise_name = ex[i]
                    /\ new[i].duration_minutes = call_args.duration_minutes
                    /\ new[i].date = new[1].date
              /\ Cardinality({f \in Backups' :
                                f.name = LogName(timestamp(clock'))
                                    /\ f.content.completed_exercises = ex
                                    /\ f.content.duration_minutes
                                           = call_args.duration_minutes}) = 1
              /\ \A f \in Backups' :
                    f.name # LogName(timestamp(clock')) => f \in Backups]_vars

\* a call with two exercises has succeeded while the minute changed: the
\* sheet ends in its two rows and the backup is there
C23_Witness ==
    /\ call_result.of = "save_workout_log"
    /\ call_result.output = LogSaved(2, 45)
    /\ Len(call_args.completed_exercises) = 2
    /\ Len(Rows) >= 2
    /\ clock >= SecondsPerMinute
    /\ Rows[Len(Rows)].date # Rows[1].date
    /\ Backups # {}

\* the dates of the rows of the sheet, and the LAST 3 WORKOUTS section of
\* the context that was built
LoggedDates == {Rows[i].date : i \in 1..Len(Rows)}

Workouts == call_result.context.workouts

ShownDates == {Workouts[i].date : i \in 1..Len(Workouts)}

\* C27: the context that build_user_context assembled lists at most three
\* workout dates, newest first, each with the exercises of its rows; they
\* are dates of the sheet, no date of the sheet that is left out is more
\* recent than one that is listed, and unless the section is missing as a
\* whole no place of the three is left empty
C27_LastThreeWorkouts ==
    (call_result.of = "build_user_context" /\ g_storage # None) =>
        /\ Len(Workouts) <= 3
        /\ \A i, j \in 1..Len(Workouts) :
              i < j => Workouts[i].date > Workouts[j].date
        /\ ShownDates \subseteq LoggedDates
        /\ \A d \in LoggedDates \ ShownDates :
              \A e \in ShownDates : d < e
        /\ \A i \in 1..Len(Workouts) :
              {Workouts[i].exercises[k] :
                    k \in 1..Len(Workouts[i].exercises)}
                = {Rows[r].exercise_name :
                    r \in {q \in 1..Len(Rows) :
                              Rows[q].date = Workouts[i].date}}
        /\ \/ Workouts = <<>>
           \/ Cardinality(ShownDates) = 3
           \/ ShownDates = LoggedDates

\* a context was built from a sheet with workouts of four dates: three of
\* them are listed
C27_Witness ==
    /\ g_storage # None
    /\ call_result.of = "build_user_context"
    /\ Cardinality(LoggedDates) = 4
    /\ Len(Workouts) = 3

\* the plan history of the drive the storage context points at
PlansHistory == store[g_storage].plans_history

\* C24: a save_workout_plan call that succeeds replaces the active plan by
\* the new one and adds an entry holding it to plans_history, and every
\* entry the history had is still there with its name and content, also
\* when the call comes within the clock second of an earlier one
C24_HistoryImmutable ==
    [][(SaveWorkoutPlan /\ call_result'.output = PlanSaved) =>
          /\ \E f \in PlansHistory' \ PlansHistory :
                f.content = store'[g_storage].plan
          /\ PlansHistory \subseteq PlansHistory'
          /\ Cardinality(PlansHistory') = Cardinality(PlansHistory) + 1]_vars

\* the same when the clock has moved on since every earlier entry
C24_ImmutableAcrossSeconds ==
    [][(SaveWorkoutPlan /\ call_result'.output = PlanSaved
            /\ \A f \in PlansHistory : f.name.stamp # timestamp(clock)) =>
          /\ PlansHistory' \ PlansHistory =
                {[name |-> PlanName(timestamp(clock)),
                  content |-> store'[g_storage].plan]}
          /\ PlansHistory \subseteq PlansHistory']_vars

\* C25: the agent loop runs save_workout_plan only when a profile document
\* has been saved: at each dispatch of a save_workout_plan call the drive of
\* the storage context holds a profile, and the history holds the
\* tool_result of an earlier save_user_profile call
C25_ProfileBeforePlan ==
    [][\A s \in Sessions :
          (Dispatched(s) /\ g_storage # None
              /\ CurrentCall(s).name = "save_workout_plan"
              /\ CurrentCall(s).args # "invalid") =>
              /\ store[g_storage].profile # NoDoc
              /\ \E i \in 1..Len(history[s]) :
                    /\ history[s][i].role = "tool_result"
                    /\ history[s][i].content = "Profile saved"]_vars

\* the plan of a user without profile has been saved by the loop
C25_PlanWithoutProfile ==
    \E s \in Sessions :
        /\ store[s].plan # NoDoc
        /\ store[s].profile = NoDoc
        /\ \E i \in 1..Len(history[s]) :
              /\ history[s][i].role = "tool_result"
              /\ history[s][i].content = PlanSaved

\* the positions send_message moves through: Idle, awaiting the model
\* ("invoke"), executing tools ("tools"), and the exhausted loop ("cap")
SendMessageMoves ==
    {<<Idle, "invoke">>, <<"invoke", Idle>>, <<"invoke", "tools">>,
     <<"tools", "tools">>, <<"tools", "invoke">>, <<"tools", "cap">>,
     <<"cap", Idle>>}

\* the messages of h that follow its last user message
SinceUser(h) ==
    LET users == {i \in 1..Len(h) : h[i].role = "user"}
    IN  IF users = {} THEN h
        ELSE SubSeq(h, (CHOOSE i \in users : \A j \in users : j <= i) + 1,
                    Len(h))

\* C31: send_message moves Idle -> invoke -> {Idle | tools} -> invoke; it
\* returns at the first reply without tool calls (every reply of the turn
\* before it carried some), that reply becomes the last message of the
\* history and its content the return value, and once it has returned no
\* model is invoked and nothing is appended until the next send
C31_SendMessageStateMachine ==
    /\ [][\A s \in Sessions :
            (mode'[s] = "buffered" /\ pc'[s] # pc[s]) =>
                <<pc[s], pc'[s]>> \in SendMessageMoves]_vars
    /\ [](\A s \in Sessions :
            (mode[s] = "buffered" /\ pc[s] = "invoke") =>
                \A i \in 1..Len(SinceUser(history[s])) :
                    SinceUser(history[s])[i].role = "agent" =>
                        SinceUser(history[s])[i].tool_calls # <<>>)
    /\ [][\A s \in Sessions :
            (mode[s] = "buffered" /\ pc[s] = "invoke" /\ pc'[s] = Idle
                /\ result'[s].kind = "returned") =>
                /\ Last(history'[s]).role = "agent"
                /\ Last(history'[s]).tool_calls = <<>>
                /\ history'[s] = Append(history[s], Last(history'[s]))
                /\ result'[s].value = Last(history'[s]).content
                /\ invocations'[s].invoke = invocations[s].invoke + 1
                /\ store' = store]_vars
    /\ [][\A s \in Sessions :
            (pc[s] = Idle /\ pc'[s] = Idle) =>
                /\ invocations'[s] = invocations[s]
                /\ result'[s] = result[s]
                /\ Len(history'[s]) <= Len(history[s])]_vars

\* send_message has returned the text of a reply that came after a tool
\* round of the same turn
C31_Witness ==
    \E s \in Sessions :
        /\ mode[s] = "buffered"
        /\ pc[s] = Idle
        /\ result[s].kind = "returned"
        /\ result[s].value \in Texts
        /\ Last(history[s]) = AIMessage(result[s].value, <<>>)
        /\ Len(history[s]) >= 2
        /\ history[s][Len(history[s]) - 1].role = "tool_result"

\* C33: when the Gemini send_message returns, every agent message with
\* tool calls in chat_history is followed by a tool_result for each of its
\* tool_call_ids, also when the safety limit of 10 rounds was hit
C33_GeminiNoUnanswered ==
    \A s \in Sessions :
        (mode[s] = "gemini" /\ pc[s] = Idle /\ result[s].kind = "returned")
        => WellPaired(history[s])

\* the same whenever the model is invoked
C33_PairedAtInvocation ==
    \A s \in Sessions :
        (mode[s] = "gemini" /\ pc[s] = "g_invoke") => WellPaired(history[s])

\* C34: the Gemini send_message makes at most 10 model invocations for one
\* user message, and when the model still asks for tools at the limit the
\* call returns the fallback text, not the content of that reply, and
\* appends no further tool turn
C34_GeminiCap ==
    /\ [](\A s \in Sessions :
            mode[s] = "gemini" => invocations[s].invoke <= 10)
    /\ [][\A s \in Sessions :
            (mode[s] = "gemini" /\ pc[s] = "g_invoke" /\ pc'[s] = Idle
                /\ toolReplies'[s] > toolReplies[s]) =>
                /\ result'[s] = Returned(FallbackText)
                /\ history'[s] = history[s]]_vars

\* the Gemini loop runs at most 10 tool rounds and 11 model invocations
C34_ElevenInvocations ==
    \A s \in Sessions :
        mode[s] = "gemini" =>
            /\ iteration[s] <= gemini_limit
            /\ invocations[s].invoke <= gemini_limit + 1

\* C32: every send_message and send_message_stream call that has begun
\* comes to its end, whatever the model replies (tool calls on every reply
\* included), as long as each invocation and each dispatch returns
C32_SendTerminates ==
    \A s \in Sessions : (pc[s] # Idle) ~> (pc[s] = Idle)

\* a streamed send whose every reply asked for tools has come to its end
\* after the tenth tool round
C32_Witness ==
    \E s \in Sessions :
        /\ mode[s] = "stream"
        /\ pc[s] = Idle
        /\ result[s].kind = "returned"
        /\ invocations[s] = [invoke |-> max_iterations, stream |-> 0]
        /\ Last(history[s]).role = "tool_result"

\* C35: save_workout_log is all-or-nothing: a call that returns the error
\* text has appended no row and written no backup, and a call that succeeds
\* has appended as many rows as its backup lists exercises
C35_LogAllOrNothing ==
    [][(SaveWorkoutLog /\ g_storage # None) =>
          IF call_result'.output = LogError
          THEN Rows' = Rows /\ Backups' = Backups
          ELSE \E f \in Backups' :
                  /\ f.name = LogName(timestamp(clock'))
                  /\ Len(Rows') - Len(Rows)
                        = Len(f.content.completed_exercises)]_vars

\* a failing call writes no backup, and a succeeding one as many rows as
\* its backup lists exercises
C35_NoBackupOnError ==
    [][(SaveWorkoutLog /\ g_storage # None) =>
          IF call_result'.output = LogError
          THEN Backups' = Backups
          ELSE \E f \in Backups' :
                  /\ f.name = LogName(timestamp(clock'))
                  /\ Len(Rows') - Len(Rows)
                        = Len(f.content.completed_exercises)]_vars

\* C39: update_memory in mode 'replace' with a missing or empty old_text
\* returns the error text that asks for old_text and leaves the memory
\* document as it was: the empty text is never taken as a match
C39_ReplaceNeedsOldText ==
    [][(MemoryStep("replace") /\ call_args.old_text = <<>>) =>
          /\ call_result'.output = RequiresOldText
          /\ Memory' = Memory]_vars

\* a replace without old_text was refused on a drive that holds a memory
\* text, with a new_text that would have changed it
C39_Witness ==
    /\ call_result.of = "update_memory"
    /\ call_result.output = RequiresOldText
    /\ call_args.mode = "replace"
    /\ call_args.old_text = <<>>
    /\ call_args.new_text # <<>>
    /\ Memory # <<>>

\* a tool handler has just been invoked
ToolInvoked ==
    \/ SaveUserProfile
    \/ SaveWorkoutPlan
    \/ SaveWorkoutLog
    \/ UpdateMemory
    \/ GetWorkoutLogs

\* C38: while no storage context is set, each of the five tools returns the
\* 'Storage not initialized' text and leaves every drive as it is, and
\* build_user_context returns the empty text, also leaving the drives alone
C38_UninitializedIsInert ==
    [][g_storage = None =>
          /\ ToolInvoked =>
                /\ call_result'.output = "ERROR: Storage not initialized"
                /\ store' = store
          /\ (\E failed \in LoadFailures : BuildUserContext(failed)) =>
                /\ call_result'.context = EmptyContext
                /\ call_result'.output = ""
                /\ store' = store]_vars

\* without a storage context, a tool was called with arguments that would
\* have written to a drive, and the context was built afterwards
C38_Witness ==
    /\ g_storage = None
    /\ call_result.of = "build_user_context"
    /\ call_result.context = EmptyContext
    /\ call_args \in PlanCalls \cup LogCalls \cup ProfileCalls
    /\ call_args.io = "ok"
    /\ store["A"] = EmptyDrive

\* C36: a message submitted through the chat input is not lost, also when
\* the transcript ends with an unanswered user message: the run of main_app
\* that receives it appends it to st.session_state.chat_history
C36_TypedInputKept ==
    [][\A s \in Sessions :
          MainApp(s, TRUE) =>
              \E i \in 1..Len(chat_history'[s]) :
                  /\ i > Len(chat_history[s])
                  /\ chat_history'[s][i] =
                        UiMessage("user", UserText(turns[s] + 1))]_vars

\* a submission that finds no pending message is appended and is the
\* message sent to the model
C36_KeptWhenNothingPending ==
    [][\A s \in Sessions :
          (MainApp(s, TRUE)
              /\ (chat_history[s] = <<>>
                     \/ Last(chat_history[s]).role # "user")) =>
              /\ chat_history'[s] =
                    Append(chat_history[s],
                           UiMessage("user", UserText(turns[s] + 1)))
              /\ Last(history'[s]) = HumanMessage(UserText(turns[s] + 1))]_vars

====
